---------------------------- MODULE Spec2Model ----------------------------
(***************************************************************************)
(* A model of the WebRTC connection orchestrator (class WebRTCManager,     *)
(* webRTCManager.js) and of the signaling messages it exchanges.           *)
(*                                                                         *)
(* Every orchestrator ("node") is one WebRTCManager object.  Its fields    *)
(* are the fields of the record mgr[n]; the objects it allocates           *)
(* (WebSocket, RTCPeerConnection, RTCDataChannel, RTCRtpSender) live in    *)
(* the sequences sockets, pcs, channels and rtpSenders of that record and  *)
(* are referred to by their index, 0 standing for null / "no entry".       *)
(* A handler of the code is an operator from a node state to a node state; *)
(* an action applies one handler (or one step of an asynchronous           *)
(* continuation) to one node.                                              *)
(***************************************************************************)
EXTENDS Naturals, Sequences, FiniteSets, Bags, TLC

VARIABLES
  mgr,    \* mgr[n]: the state of the WebRTCManager of node n
  inbox,  \* inbox[n]: signaling texts relayed to node n, not yet delivered,
          \* each given by its "|"-separated fields
  last    \* the step taken last: its operation, its node, the peer it is about
          \* and the handle that peer had in the session table before the step

vars == <<mgr, inbox, last>>

---------------------------------------------------------------------------
(* Bounds of the model *)

MaxSockets == 3    \* WebSocket objects one orchestrator creates
MaxPcs == 2        \* RTCPeerConnection objects one orchestrator creates
MaxTasks == 2      \* asynchronous continuations pending in one orchestrator
MaxInbox == 2      \* relayed messages waiting for one orchestrator
MaxSenders == 4    \* RTCRtpSender objects one orchestrator creates

---------------------------------------------------------------------------
(* Identifiers and values *)

Nodes == {"A", "B"}            \* the orchestrators that run
Ids == {"A", "B", "C"}         \* peer ids seen on the signaling channel
ALL == "ALL"                   \* the broadcast receiver

NoPeer == "-"

\* The streams the application captures: S1 and S2 have a video and an audio
\* track each, SV has a video track only.
Streams == {"S1", "S2", "SV"}
StreamTracks(s) ==
  IF s = "S1" THEN {"v1", "a1"} ELSE IF s = "S2" THEN {"v2", "a2"} ELSE {"v3"}
TrackKind(t) == IF t \in {"v1", "v2", "v3"} THEN "video" ELSE "audio"

---------------------------------------------------------------------------
(* Small helpers on sequences and maps *)

Range(s) == {s[i] : i \in DOMAIN s}

RECURSIVE SetToSeq(_)
SetToSeq(S) ==
  IF S = {} THEN <<>>
  ELSE LET x == CHOOSE y \in S : \A z \in S : y <= z
       IN <<x>> \o SetToSeq(S \ {x})

EmptyMap == [p \in Ids |-> 0]
Keys(m) == {p \in Ids : m[p] # 0}
Size(m) == Cardinality(Keys(m))

NoBundle == [present |-> FALSE, remoteStream |-> {}]

---------------------------------------------------------------------------
(* The WebRTCManager object after its constructor *)

InitMgr(n) ==
  [ localPeerId |-> n,
    isWebSocketConnected |-> FALSE,
    isWebSocketConnectionInProgress |-> FALSE,
    ws |-> 0,
    isLocalPeerVideoAudioSender |-> FALSE,
    isLocalPeerVideoAudioReceiver |-> FALSE,
    peerConnections |-> EmptyMap,
    senderDataChannels |-> EmptyMap,
    receiverDataChannels |-> EmptyMap,
    videoTrackSenders |-> EmptyMap,
    audioTrackSenders |-> EmptyMap,
    mediaElements |-> [p \in Ids |-> NoBundle],
    localStream |-> "null",
    \* the objects the orchestrator has created
    sockets |-> <<>>,
    pcs |-> <<>>,
    channels |-> <<>>,
    rtpSenders |-> <<>>,
    ended |-> {},          \* local tracks that were stopped
    tasks |-> EmptyBag,    \* pending asynchronous continuations
    \* what the handler running now has sent (out) and which application
    \* callbacks it has raised (cb); how the last connect() call returned
    out |-> <<>>,
    cb |-> <<>>,
    connectResult |-> "none",
    \* the data channels the call running now has called send() on (dcSent),
    \* and whether the handler running now ended with an exception that
    \* nothing caught (uncaught)
    dcSent |-> <<>>,
    uncaught |-> FALSE ]

---------------------------------------------------------------------------
(* Signaling messages (class SignalingMessage) *)

SignalingMessageType ==
  {"NEWPEER", "NEWPEERACK", "OFFER", "ANSWER", "CANDIDATE", "DISPOSE", "DATA", "COMPLETE"}

\* The payload of a message is modelled by what JSON.parse and the engine
\* make of it: a session description of type offer or answer, an ICE
\* candidate, or plain text (which JSON.parse rejects).
Payloads == {"offer", "answer", "candidate", "text"}

SignalingMessage(type, senderPeerId, receiverPeerId, message, connectionCount, isVideoAudioSender) ==
  [ Type |-> type,
    SenderPeerId |-> senderPeerId,
    ReceiverPeerId |-> receiverPeerId,
    Message |-> message,
    ConnectionCount |-> connectionCount,
    IsVideoAudioSender |-> isVideoAudioSender ]

\* A received text is modelled by the fields text.split("|") yields (a text
\* without "|" has one field, the empty text one empty field).
Undefined == "undefined"
NaN == 99            \* stands for the number NaN; no count comes near it

\* The decimal text of the counts that occur (template literal `${n}`) and
\* of a boolean
NumText == <<"0", "1", "2", "3", "4">>

NumberToText(n) == NumText[n + 1]

BooleanToText(b) == IF b THEN "true" ELSE "false"

\* parseInt(x, 10) on the count fields that occur
ParseInt(x) ==
  IF \E n \in 0..(Len(NumText) - 1) : NumText[n + 1] = x
  THEN CHOOSE n \in 0..(Len(NumText) - 1) : NumText[n + 1] = x
  ELSE NaN

Field(parts, i) == IF i <= Len(parts) THEN parts[i] ELSE Undefined

\* Variant of toLowerCase that leaves the text as it is: reading the flag
\* without regard to case (C27) must not hold of it.
ToLowerCase_AsIs(x) == x

ToLowerCase(x) ==
  IF x \in {"True", "TRUE", "tRuE", "true"} THEN "true"
  ELSE IF x \in {"False", "FALSE", "false"} THEN "false"
  ELSE x

\* Variant of the parser that reads the kind without regard to case: unknown
\* kinds being ignored (C16) must not hold of it.
ParseSignalingMessage_AnyCase(parts) ==
  [ Type |-> IF parts[1] = "newpeer" THEN "NEWPEER" ELSE parts[1],
    SenderPeerId |-> Field(parts, 2),
    ReceiverPeerId |-> Field(parts, 3),
    Message |-> Field(parts, 4),
    ConnectionCount |-> IF Len(parts) >= 5 /\ parts[5] # "" THEN ParseInt(parts[5]) ELSE 0,
    IsVideoAudioSender |-> IF Len(parts) >= 6 /\ parts[6] # ""
                           THEN ToLowerCase(parts[6]) = "true" ELSE FALSE ]

\* new SignalingMessage(text)
ParseSignalingMessage(parts) ==
  [ Type |-> parts[1],
    SenderPeerId |-> Field(parts, 2),
    ReceiverPeerId |-> Field(parts, 3),
    Message |-> Field(parts, 4),
    ConnectionCount |-> IF Len(parts) >= 5 /\ parts[5] # "" THEN ParseInt(parts[5]) ELSE 0,
    IsVideoAudioSender |-> IF Len(parts) >= 6 /\ parts[6] # ""
                           THEN ToLowerCase(parts[6]) = "true" ELSE FALSE ]

\* x.split("|") of a field value: the one value that holds the delimiter
\* falls into two fields, every other value is one field.
WithDelimiter == "x|y"

Pieces(x) == IF x = WithDelimiter THEN <<"x", "y">> ELSE <<x>>

\* toString(): the six fields joined by "|".  The text is given, like a
\* received one, by the fields split("|") yields.
toString(msg) ==
  Pieces(msg.Type) \o Pieces(msg.SenderPeerId) \o Pieces(msg.ReceiverPeerId)
    \o Pieces(msg.Message) \o <<NumberToText(msg.ConnectionCount)>>
    \o <<BooleanToText(msg.IsVideoAudioSender)>>

\* this.ws.send(signalingMsg.toString()) for every message a handler sent
Encoded(out) == [i \in DOMAIN out |-> toString(out[i])]

---------------------------------------------------------------------------
(* The signaling transport: one WebSocket object per connect() *)

NewSocket == [readyState |-> "CONNECTING", closePending |-> FALSE, promise |-> "pending"]

WsIsOpen(st) == st.ws # 0 /\ st.sockets[st.ws].readyState = "OPEN"

Callback(st, name, peerId) == [st EXCEPT !.cb = Append(@, <<name, peerId>>)]

sendWebSocketMessage(st, messageType, senderPeerId, receiverPeerId, message) ==
  IF WsIsOpen(st)
  THEN [st EXCEPT !.out = Append(@,
          SignalingMessage(messageType, senderPeerId, receiverPeerId, message,
                           Size(st.peerConnections), st.isLocalPeerVideoAudioSender))]
  ELSE st

---------------------------------------------------------------------------
(* The connection engine: RTCPeerConnection, RTCDataChannel, RTCRtpSender *)

NewPc(peerId) ==
  [ peer |-> peerId,
    signalingState |-> "stable",
    iceConnectionState |-> "new",
    remoteDescription |-> FALSE,
    remoteCandidate |-> FALSE,     \* addIceCandidate() has added a candidate
    offersSinceStable |-> 0,       \* OFFER messages sent since it was last stable
    established |-> 0 ]            \* "peer connection established" raised by its
                                   \* connectivity reports

NewChannel(h, peerId, role) ==
  [pc |-> h, peer |-> peerId, role |-> role, readyState |-> "connecting", closePending |-> FALSE]

\* pc.getSenders(): the senders of handle h, in creation order.
GetSenders(st, h) == {i \in DOMAIN st.rtpSenders : st.rtpSenders[i].pc = h}

\* Continuations awaiting an operation of handle h are never resumed once h
\* is closed: the engine aborts the operation without settling its promise.
DropTasks(st, h) ==
  LET keep == {t \in DOMAIN st.tasks : t.pc # h}
  IN [st EXCEPT !.tasks = [t \in keep |-> st.tasks[t]]]

\* pc.close(): signaling and ICE state become "closed" without an event, the
\* handle's data channels close (their close events follow later).  Nothing
\* reads the other fields of a closed handle again.
ClosePc(st, h) ==
  LET s1 == [st EXCEPT
               !.pcs[h] = [NewPc(st.pcs[h].peer) EXCEPT !.signalingState = "closed",
                                                        !.iceConnectionState = "closed"],
               !.channels = [c \in DOMAIN st.channels |->
                  IF st.channels[c].pc = h /\ st.channels[c].readyState # "closed"
                  THEN [st.channels[c] EXCEPT !.readyState = "closed", !.closePending = TRUE]
                  ELSE st.channels[c]]]
  IN DropTasks(s1, h)

\* pc.addTrack(track, stream) and the bookkeeping of the sender it returns.
addTrack(st, peerId, h, track) ==
  LET i == Len(st.rtpSenders) + 1
      s1 == [st EXCEPT !.rtpSenders = Append(@, [pc |-> h, track |-> track])]
  IN IF TrackKind(track) = "video"
     THEN [s1 EXCEPT !.videoTrackSenders[peerId] = i]
     ELSE [s1 EXCEPT !.audioTrackSenders[peerId] = i]

RECURSIVE addTracks(_, _, _, _)
addTracks(st, peerId, h, tracks) ==
  IF tracks = <<>> THEN st
  ELSE addTracks(addTrack(st, peerId, h, Head(tracks)), peerId, h, Tail(tracks))

\* stream.getTracks(), video first
GetTracks(s) ==
  IF s = "S1" THEN <<"v1", "a1">> ELSE IF s = "S2" THEN <<"v2", "a2">> ELSE <<"v3">>

---------------------------------------------------------------------------
(* Session table *)

\* The outbound data channel is created with the handle.
_setupPeerConnectionEventHandlers(st, peerId, h) ==
  IF st.senderDataChannels[peerId] = 0
  THEN [st EXCEPT !.channels = Append(@, NewChannel(h, peerId, "sender")),
                  !.senderDataChannels[peerId] = Len(st.channels) + 1]
  ELSE st

\* Variant of _setupPeerConnection that does not look for an existing entry:
\* idempotent session creation (C3) must not hold of it.
_setupPeerConnection_Always(st, peerId) ==
  LET h == Len(st.pcs) + 1
      s1 == [st EXCEPT !.pcs = Append(@, NewPc(peerId)),
                       !.peerConnections[peerId] = h]
      s2 == _setupPeerConnectionEventHandlers(s1, peerId, h)
  IN IF s2.isLocalPeerVideoAudioSender /\ s2.localStream # "null"
     THEN addTracks(s2, peerId, h, GetTracks(s2.localStream))
     ELSE s2

_setupPeerConnection(st, peerId) ==
  IF st.peerConnections[peerId] # 0
  THEN st
  ELSE LET h == Len(st.pcs) + 1
           s1 == [st EXCEPT !.pcs = Append(@, NewPc(peerId)),
                            !.peerConnections[peerId] = h]
           s2 == _setupPeerConnectionEventHandlers(s1, peerId, h)
       IN IF s2.isLocalPeerVideoAudioSender /\ s2.localStream # "null"
          THEN addTracks(s2, peerId, h, GetTracks(s2.localStream))
          ELSE s2

\* The page always has the container the elements are appended to.
_createNewPeerMediaReceivingResources(st, peerId) ==
  [st EXCEPT !.mediaElements[peerId] = [present |-> TRUE, remoteStream |-> {}]]

\* Variant of _cleanupPeer that leaves the peer's outbound data channel in
\* its map: teardown completeness (C4) must not hold of it.
_cleanupPeer_KeepsChannel(st, peerId) ==
  LET h == st.peerConnections[peerId]
      s1 == IF h # 0
            THEN LET stopped == {st.rtpSenders[i].track : i \in GetSenders(st, h)} \ {"null"}
                     c1 == [st EXCEPT !.ended = @ \cup stopped]
                     c2 == ClosePc(c1, h)
                 IN [c2 EXCEPT !.peerConnections[peerId] = 0]
            ELSE st
  IN [s1 EXCEPT !.receiverDataChannels[peerId] = 0,
                !.videoTrackSenders[peerId] = 0,
                !.audioTrackSenders[peerId] = 0,
                !.mediaElements[peerId] = NoBundle]

\* Variant of _cleanupPeer that leaves the peer's entries in the sender
\* maps: bookkeeping that never outlives its session (C38) must not hold of
\* it.
_cleanupPeer_KeepsSenders(st, peerId) ==
  LET h == st.peerConnections[peerId]
      s1 == IF h # 0
            THEN LET stopped == {st.rtpSenders[i].track : i \in GetSenders(st, h)} \ {"null"}
                     c1 == [st EXCEPT !.ended = @ \cup stopped]
                     c2 == ClosePc(c1, h)
                 IN [c2 EXCEPT !.peerConnections[peerId] = 0]
            ELSE st
  IN [s1 EXCEPT !.senderDataChannels[peerId] = 0,
                !.receiverDataChannels[peerId] = 0,
                !.mediaElements[peerId] = NoBundle]

_cleanupPeer(st, peerId) ==
  LET h == st.peerConnections[peerId]
      s1 == IF h # 0
            THEN LET stopped == {st.rtpSenders[i].track : i \in GetSenders(st, h)} \ {"null"}
                     c1 == [st EXCEPT !.ended = @ \cup stopped]
                     c2 == ClosePc(c1, h)
                 IN [c2 EXCEPT !.peerConnections[peerId] = 0]
            ELSE st
  IN [s1 EXCEPT !.senderDataChannels[peerId] = 0,
                !.receiverDataChannels[peerId] = 0,
                !.videoTrackSenders[peerId] = 0,
                !.audioTrackSenders[peerId] = 0,
                !.mediaElements[peerId] = NoBundle]

RECURSIVE CleanupEach(_, _)
CleanupEach(st, peers) ==
  IF peers = <<>> THEN st
  ELSE CleanupEach(_cleanupPeer(st, Head(peers)), Tail(peers))

\* The keys of the session table in insertion order: handles are numbered in
\* creation order and every entry is inserted with a new handle.
KeysInOrder(st) ==
  LET hs == SetToSeq({st.peerConnections[p] : p \in Keys(st.peerConnections)})
  IN [i \in DOMAIN hs |-> st.pcs[hs[i]].peer]

cleanupAllPeers(st) ==
  LET s1 == CleanupEach(st, KeysInOrder(st))
  IN [s1 EXCEPT !.peerConnections = EmptyMap,
                !.senderDataChannels = EmptyMap,
                !.receiverDataChannels = EmptyMap,
                !.videoTrackSenders = EmptyMap,
                !.audioTrackSenders = EmptyMap,
                !.mediaElements = [p \in Ids |-> NoBundle]]

\* closeWebRTC(): the tracks of this.localStream are stopped and the stream
\* is dropped.  The page's local video element shows the same stream, so
\* stopping the tracks of its srcObject stops no other track.
closeWebRTC(st) ==
  LET s1 == cleanupAllPeers(st)
      s2 == sendWebSocketMessage(s1, "DISPOSE", s1.localPeerId, ALL, "text")
  IN IF s2.localStream # "null"
     THEN [s2 EXCEPT !.ended = @ \cup StreamTracks(s2.localStream),
                     !.localStream = "null"]
     ELSE s2

---------------------------------------------------------------------------
(* connect(), closeWebSocket() and the handlers connect() installs on the *)
(* socket it creates (socket i of the node) *)

\* Variant of connect() without the check of an attempt in progress: the
\* refusal of a second attempt (C9) must not hold of it.
connect_Unchecked(st, isVideoAudioSender, isVideoAudioReceiver) ==
  IF WsIsOpen(st)
  THEN [st EXCEPT !.connectResult = "returned"]
  ELSE [st EXCEPT !.isWebSocketConnectionInProgress = TRUE,
                  !.isLocalPeerVideoAudioSender = isVideoAudioSender,
                  !.isLocalPeerVideoAudioReceiver = isVideoAudioReceiver,
                  !.sockets = Append(@, NewSocket),
                  !.ws = Len(st.sockets) + 1,
                  !.connectResult = "promise"]

\* connect() up to its return: connectResult is how the call ended for its
\* caller, "returned" (completed without a value), "promise" (the promise of
\* the new socket) or "TransportError" (an error raised to the caller).
connect(st, isVideoAudioSender, isVideoAudioReceiver) ==
  IF WsIsOpen(st)
  THEN [st EXCEPT !.connectResult = "returned"]
  ELSE IF st.isWebSocketConnectionInProgress
  THEN [st EXCEPT !.connectResult = "returned"]
  ELSE [st EXCEPT !.isWebSocketConnectionInProgress = TRUE,
                  !.isLocalPeerVideoAudioSender = isVideoAudioSender,
                  !.isLocalPeerVideoAudioReceiver = isVideoAudioReceiver,
                  !.sockets = Append(@, NewSocket),
                  !.ws = Len(st.sockets) + 1,
                  !.connectResult = "promise"]

Settle(st, i, how) ==
  IF st.sockets[i].promise = "pending" THEN [st EXCEPT !.sockets[i].promise = how] ELSE st

\* Variant of onopen that does not announce the local peer: the presence
\* broadcast on open (C11) must not hold of it.
onopen_NoAnnounce(st, i) ==
  LET s1 == [st EXCEPT !.isWebSocketConnected = TRUE,
                       !.isWebSocketConnectionInProgress = FALSE]
      s2 == Callback(s1, "onWebSocketConnection", "open")
  IN Settle(s2, i, "resolved")

onopen(st, i) ==
  LET s1 == [st EXCEPT !.isWebSocketConnected = TRUE,
                       !.isWebSocketConnectionInProgress = FALSE]
      s2 == Callback(s1, "onWebSocketConnection", "open")
      s3 == sendWebSocketMessage(s2, "NEWPEER", s2.localPeerId, ALL, "text")
  IN Settle(s3, i, "resolved")

onerror(st, i) ==
  LET s1 == [st EXCEPT !.isWebSocketConnectionInProgress = FALSE]
      s2 == Callback(s1, "onWebSocketConnection", "error")
  IN Settle(s2, i, "rejected")

onclose(st, i) ==
  LET s1 == [st EXCEPT !.isWebSocketConnected = FALSE,
                       !.isWebSocketConnectionInProgress = FALSE]
      s2 == Callback(s1, "onWebSocketConnection", "closed")
      s3 == cleanupAllPeers(s2)
  IN Settle(s3, i, "rejected")

\* ws.close(): a connecting or open socket starts closing.
closeWebSocket(st) ==
  IF st.ws # 0 /\ st.sockets[st.ws].readyState \in {"CONNECTING", "OPEN"}
  THEN [st EXCEPT !.sockets[st.ws].readyState = "CLOSING"]
  ELSE st

---------------------------------------------------------------------------
(* Asynchronous negotiation.  A continuation is a record                   *)
(*   [op, pc, stage, desc, caller]                                         *)
(* op the async function, pc the handle it captured, stage the engine      *)
(* operation it awaits, desc the type of the description it applies, and   *)
(* caller the loop that awaits it (NoCaller when nothing does).            *)

NoCaller == [kind |-> "none", cursor |-> 0, stream |-> "null"]

Task(op, h, stage, desc, caller) ==
  [op |-> op, pc |-> h, stage |-> stage, desc |-> desc, caller |-> caller]

AddTask(st, t) == [st EXCEPT !.tasks = @ (+) SetToBag({t})]
RemoveTask(st, t) == [st EXCEPT !.tasks = @ (-) SetToBag({t})]

\* The guard of _createAndSendOffer: a session exists and is stable.
CanOffer(st, peerId) ==
  /\ st.peerConnections[peerId] # 0
  /\ st.pcs[st.peerConnections[peerId]].signalingState = "stable"

\* Variant of _createAndSendOffer without the stable gate: the negotiation
\* guard (C1) must not hold of it.
_createAndSendOffer_Ungated(st, peerId, caller) ==
  IF st.peerConnections[peerId] = 0
  THEN st
  ELSE AddTask(st, Task("_createAndSendOffer", st.peerConnections[peerId],
                        "setLocalDescription", "offer", caller))

\* _createAndSendOffer up to its suspension (await pc.createOffer()...).
_createAndSendOffer(st, peerId, caller) ==
  IF st.peerConnections[peerId] = 0
  THEN st
  ELSE IF st.pcs[st.peerConnections[peerId]].signalingState # "stable"
  THEN st
  ELSE AddTask(st, Task("_createAndSendOffer", st.peerConnections[peerId],
                        "setLocalDescription", "offer", caller))

\* Variant of the loop of initiateOffersToAllPeers that ends at the first
\* peer it cannot offer to: going on after a skipped peer (C21) must not hold
\* of it.
initiateLoop_StopsAtSkipped(st, cursor) ==
  LET later == {st.peerConnections[p] : p \in Keys(st.peerConnections)} \ (0..cursor)
  IN IF later = {} THEN st
     ELSE LET h == CHOOSE x \in later : \A y \in later : x <= y
              peerId == st.pcs[h].peer
          IN IF CanOffer(st, peerId)
             THEN _createAndSendOffer(st, peerId,
                                      [kind |-> "initiateOffersToAllPeers", cursor |-> h,
                                       stream |-> "null"])
             ELSE st

\* for (const peerId of this.peerConnections.keys()) await _createAndSendOffer(peerId):
\* the loop from the entry after handle `cursor` up to its next suspension.  A
\* call that returns at its guard does not suspend the loop.
RECURSIVE initiateLoop(_, _)
initiateLoop(st, cursor) ==
  LET later == {st.peerConnections[p] : p \in Keys(st.peerConnections)} \ (0..cursor)
  IN IF later = {} THEN st
     ELSE LET h == CHOOSE x \in later : \A y \in later : x <= y
              peerId == st.pcs[h].peer
          IN IF CanOffer(st, peerId)
             THEN _createAndSendOffer(st, peerId,
                                      [kind |-> "initiateOffersToAllPeers", cursor |-> h,
                                       stream |-> "null"])
             ELSE initiateLoop(st, h)

initiateOffersToAllPeers(st) == initiateLoop(st, 0)

\* pc.removeTrack(sender)
removeTrack(st, i) ==
  [st EXCEPT !.rtpSenders[i].track = "null"]

RECURSIVE removeTracks(_, _)
removeTracks(st, senders) ==
  IF senders = {} THEN st
  ELSE LET i == CHOOSE x \in senders : TRUE
       IN removeTracks(removeTrack(st, i), senders \ {i})

\* Variant of the loop of setLocalStream(stream) that ends at the first peer
\* it cannot offer to: attaching the tracks to every session (C35) must not
\* hold of it.
setLocalStreamLoop_StopsAtSkipped(st, stream, cursor) ==
  LET later == {st.peerConnections[p] : p \in Keys(st.peerConnections)} \ (0..cursor)
  IN IF later = {} \/ ~st.isLocalPeerVideoAudioSender THEN st
     ELSE LET h == CHOOSE x \in later : \A y \in later : x <= y
              peerId == st.pcs[h].peer
              old == {i \in GetSenders(st, h) :
                        /\ st.rtpSenders[i].track # "null"
                        /\ \E t \in StreamTracks(stream) :
                             TrackKind(t) = TrackKind(st.rtpSenders[i].track)}
              s1 == removeTracks(st, old)
              s2 == addTracks(s1, peerId, h, GetTracks(stream))
          IN IF CanOffer(s2, peerId)
             THEN _createAndSendOffer(s2, peerId,
                     [kind |-> "setLocalStream", cursor |-> h, stream |-> stream])
             ELSE s2

\* The loop of setLocalStream(stream) over peerConnections.entries(), from the
\* entry after handle `cursor` up to its next suspension.
RECURSIVE setLocalStreamLoop(_, _, _)
setLocalStreamLoop(st, stream, cursor) ==
  LET later == {st.peerConnections[p] : p \in Keys(st.peerConnections)} \ (0..cursor)
  IN IF later = {} THEN st
     ELSE LET h == CHOOSE x \in later : \A y \in later : x <= y
              peerId == st.pcs[h].peer
          IN IF ~st.isLocalPeerVideoAudioSender
             THEN setLocalStreamLoop(st, stream, h)
             ELSE LET old == {i \in GetSenders(st, h) :
                                /\ st.rtpSenders[i].track # "null"
                                /\ \E t \in StreamTracks(stream) :
                                     TrackKind(t) = TrackKind(st.rtpSenders[i].track)}
                      s1 == removeTracks(st, old)
                      s2 == addTracks(s1, peerId, h, GetTracks(stream))
                  IN IF CanOffer(s2, peerId)
                     THEN _createAndSendOffer(s2, peerId,
                             [kind |-> "setLocalStream", cursor |-> h, stream |-> stream])
                     ELSE setLocalStreamLoop(s2, stream, h)

setLocalStream(st, stream) ==
  IF stream = "null"
  THEN LET s1 == IF st.localStream # "null"
                 THEN [st EXCEPT !.ended = @ \cup StreamTracks(st.localStream)]
                 ELSE st
           live == {i \in DOMAIN s1.rtpSenders :
                      /\ s1.rtpSenders[i].track # "null"
                      /\ \E p \in Keys(s1.peerConnections) :
                           s1.peerConnections[p] = s1.rtpSenders[i].pc}
           s2 == removeTracks(s1, live)
       IN [s2 EXCEPT !.localStream = "null"]
  ELSE setLocalStreamLoop([st EXCEPT !.localStream = stream], stream, 0)

\* The caller of a finished continuation goes on.
Resume(st, caller) ==
  IF caller.kind = "initiateOffersToAllPeers"
  THEN initiateLoop(st, caller.cursor)
  ELSE IF caller.kind = "setLocalStream"
  THEN setLocalStreamLoop(st, caller.stream, caller.cursor)
  ELSE st

\* The engine's signaling state machine.  accept: whether an engine in
\* have-local-offer takes a remote offer (implicit rollback) or rejects it.
SetLocalOk(pc, desc) ==
  IF desc = "offer" THEN pc.signalingState \in {"stable", "have-local-offer"}
  ELSE pc.signalingState = "have-remote-offer"

SetRemoteOk(pc, desc, accept) ==
  IF desc = "offer"
  THEN \/ pc.signalingState \in {"stable", "have-remote-offer"}
       \/ pc.signalingState = "have-local-offer" /\ accept
  ELSE pc.signalingState = "have-local-offer"

BackToStable(pc) ==
  [pc EXCEPT !.signalingState = "stable", !.offersSinceStable = 0]

\* createOffer() and then setLocalDescription(offer) have settled:
\*   .then((offer) => pc.setLocalDescription(offer)).then(() => send OFFER).catch(log)
\* createOffer() changes nothing and is rejected in the states in which
\* setLocalDescription(offer) is, so the two settle as one step.
\* An offer is applied only if no later createOffer() of the handle has
\* replaced it; whether one has, when another _createAndSendOffer of the
\* handle is pending, depends on the order in which the engine ran them
\* (accept).
Superseded(st, t) ==
  \/ st.tasks[t] > 1
  \/ \E u \in DOMAIN st.tasks : u # t /\ u.op = "_createAndSendOffer" /\ u.pc = t.pc

OfferSetLocal(st, t, accept) ==
  LET s1 == RemoveTask(st, t)
      h == t.pc
  IN IF SetLocalOk(st.pcs[h], "offer") /\ (accept \/ ~Superseded(st, t))
     THEN LET s2 == [s1 EXCEPT !.pcs[h].signalingState = "have-local-offer"]
              s3 == sendWebSocketMessage(s2, "OFFER", s2.localPeerId, s2.pcs[h].peer, "offer")
              s4 == IF WsIsOpen(s2)
                    THEN [s3 EXCEPT !.pcs[h].offersSinceStable = @ + 1]
                    ELSE s3
          IN Resume(s4, t.caller)
     ELSE Resume(s1, t.caller)     \* rejected: .catch logs

\* _handleOffer up to its first suspension (pc.setRemoteDescription()).
\* JSON.parse throws on a payload that is no JSON text, and the constructor
\* of RTCSessionDescription on an object without a type; neither is inside a
\* try or the promise chain, so the exception leaves _handleOffer and, through
\* the await in handleMessage, handleMessage.
_handleOffer(st, senderPeerId, offerJson) ==
  IF st.peerConnections[senderPeerId] = 0
  THEN st
  ELSE IF offerJson \notin {"offer", "answer"}
  THEN [st EXCEPT !.uncaught = TRUE]
  ELSE AddTask(st, Task("_handleOffer", st.peerConnections[senderPeerId],
                        "setRemoteDescription", offerJson, NoCaller))

\* Variant of the chain of _handleOffer that applies the offer and sends no
\* ANSWER: answering an offer (C14) must not hold of it.
HandleOfferStep_Silent(st, t, accept) ==
  LET s1 == RemoveTask(st, t)
      h == t.pc
      pc == st.pcs[h]
  IN IF t.stage = "setRemoteDescription"
     THEN IF SetRemoteOk(pc, t.desc, accept)
          THEN LET pc2 == IF t.desc = "offer"
                          THEN [pc EXCEPT !.signalingState = "have-remote-offer"]
                          ELSE BackToStable(pc)
                   s2 == [s1 EXCEPT !.pcs[h] = [pc2 EXCEPT !.remoteDescription = TRUE]]
               IN AddTask(s2, [t EXCEPT !.stage = "setLocalDescription"])
          ELSE s1
     ELSE IF SetLocalOk(pc, "answer")
          THEN [s1 EXCEPT !.pcs[h] = BackToStable(pc)]
          ELSE s1

\* Variant of the chain of _handleOffer that sends the ANSWER whether or not
\* the engine took it: a resumed step sending nothing for a destroyed
\* session (C37) must not hold of it.
HandleOfferStep_AnswersAnyway(st, t, accept) ==
  LET s1 == RemoveTask(st, t)
      h == t.pc
      pc == st.pcs[h]
  IN IF t.stage = "setRemoteDescription"
     THEN IF SetRemoteOk(pc, t.desc, accept)
          THEN LET pc2 == IF t.desc = "offer"
                          THEN [pc EXCEPT !.signalingState = "have-remote-offer"]
                          ELSE BackToStable(pc)
                   s2 == [s1 EXCEPT !.pcs[h] = [pc2 EXCEPT !.remoteDescription = TRUE]]
               IN AddTask(s2, [t EXCEPT !.stage = "setLocalDescription"])
          ELSE s1
     ELSE LET s2 == IF SetLocalOk(pc, "answer")
                    THEN [s1 EXCEPT !.pcs[h] = BackToStable(pc)]
                    ELSE s1
          IN sendWebSocketMessage(s2, "ANSWER", s2.localPeerId, pc.peer, "answer")

\* One settled step of _handleOffer's promise chain: setRemoteDescription(),
\* or createAnswer() and then setLocalDescription(answer), which settle as one
\* step (createAnswer() changes nothing and needs have-remote-offer as well).
HandleOfferStep(st, t, accept) ==
  LET s1 == RemoveTask(st, t)
      h == t.pc
      pc == st.pcs[h]
  IN IF t.stage = "setRemoteDescription"
     THEN IF SetRemoteOk(pc, t.desc, accept)
          THEN LET pc2 == IF t.desc = "offer"
                          THEN [pc EXCEPT !.signalingState = "have-remote-offer"]
                          ELSE BackToStable(pc)
                   s2 == [s1 EXCEPT !.pcs[h] = [pc2 EXCEPT !.remoteDescription = TRUE]]
               IN AddTask(s2, [t EXCEPT !.stage = "setLocalDescription"])
          ELSE s1
     ELSE IF SetLocalOk(pc, "answer")
          THEN LET s2 == [s1 EXCEPT !.pcs[h] = BackToStable(pc)]
               IN sendWebSocketMessage(s2, "ANSWER", s2.localPeerId, pc.peer, "answer")
          ELSE s1

\* _handleAnswer up to its suspension; the whole body is inside try/catch.
_handleAnswer(st, senderPeerId, answerJson) ==
  IF st.peerConnections[senderPeerId] = 0
  THEN st
  ELSE IF answerJson \notin {"offer", "answer"}
  THEN st
  ELSE AddTask(st, Task("_handleAnswer", st.peerConnections[senderPeerId],
                        "setRemoteDescription", answerJson, NoCaller))

\* Variant of the chain of _handleAnswer that destroys the session when the
\* engine rejects the answer: a rejected ANSWER being only logged (C34) must
\* not hold of it.
HandleAnswerStep_FatalOnReject(st, t, accept) ==
  LET s1 == RemoveTask(st, t)
      h == t.pc
      pc == st.pcs[h]
  IN IF SetRemoteOk(pc, t.desc, accept)
     THEN LET pc2 == IF t.desc = "offer"
                     THEN [pc EXCEPT !.signalingState = "have-remote-offer"]
                     ELSE BackToStable(pc)
          IN [s1 EXCEPT !.pcs[h] = [pc2 EXCEPT !.remoteDescription = TRUE]]
     ELSE _cleanupPeer(s1, pc.peer)

\* setRemoteDescription() of _handleAnswer settled.
HandleAnswerStep(st, t, accept) ==
  LET s1 == RemoveTask(st, t)
      h == t.pc
      pc == st.pcs[h]
  IN IF SetRemoteOk(pc, t.desc, accept)
     THEN LET pc2 == IF t.desc = "offer"
                     THEN [pc EXCEPT !.signalingState = "have-remote-offer"]
                     ELSE BackToStable(pc)
          IN [s1 EXCEPT !.pcs[h] = [pc2 EXCEPT !.remoteDescription = TRUE]]
     ELSE s1

\* _handleCandidate: JSON.parse, the RTCIceCandidate constructor and
\* addIceCandidate() are all inside try/catch.  The engine takes a candidate
\* once the handle has a remote description and rejects it before
\* (InvalidStateError, which the catch logs).  What addIceCandidate() does it
\* does when called; its settling changes nothing in the orchestrator.
_handleCandidate(st, senderPeerId, candidateJson) ==
  LET h == st.peerConnections[senderPeerId]
  IN IF h = 0 THEN st
     ELSE IF candidateJson = "candidate" /\ st.pcs[h].remoteDescription
     THEN [st EXCEPT !.pcs[h].remoteCandidate = TRUE]
     ELSE st

---------------------------------------------------------------------------
(* Handlers of the engine's events, installed per handle by                *)
(* _setupPeerConnectionEventHandlers(peerId, pc)                           *)

\* Variant of oniceconnectionstatechange that raises the callback on
\* "connected" only: one callback per report (C6) must not hold of it.
oniceconnectionstatechange_ConnectedOnly(st, peerId, h) ==
  LET state == st.pcs[h].iceConnectionState
      s1 == IF state = "connected"
            THEN Callback([st EXCEPT !.pcs[h].established = @ + 1],
                          "onWebRTCConnection", peerId)
            ELSE st
  IN IF state \in {"failed", "disconnected", "closed"}
     THEN _cleanupPeer(s1, peerId)
     ELSE s1

\* Variant of oniceconnectionstatechange that tears down on "failed" only:
\* the teardown on every failure signal (C33) must not hold of it.
oniceconnectionstatechange_FailedOnly(st, peerId, h) ==
  LET state == st.pcs[h].iceConnectionState
      s1 == IF state \in {"connected", "completed"}
            THEN Callback([st EXCEPT !.pcs[h].established = @ + 1],
                          "onWebRTCConnection", peerId)
            ELSE st
  IN IF state = "failed"
     THEN _cleanupPeer(s1, peerId)
     ELSE s1

oniceconnectionstatechange(st, peerId, h) ==
  LET state == st.pcs[h].iceConnectionState
      s1 == IF state \in {"connected", "completed"}
            THEN Callback([st EXCEPT !.pcs[h].established = @ + 1],
                          "onWebRTCConnection", peerId)
            ELSE st
  IN IF state \in {"failed", "disconnected", "closed"}
     THEN _cleanupPeer(s1, peerId)
     ELSE s1

\* Variant of pc.ontrack that adds the track without removing the one of
\* its kind the stream holds: one track per kind (C24) must not hold of it.
ontrack_KeepsOld(st, peerId, h, kind, id) ==
  IF ~st.mediaElements[peerId].present
  THEN st
  ELSE LET s1 == [st EXCEPT !.mediaElements[peerId].remoteStream =
                                @ \cup {[kind |-> kind, pc |-> h, id |-> id]}]
       IN Callback(s1, IF kind = "video" THEN "onVideoStreamEstablished"
                                         ELSE "onAudioStreamEstablished", peerId)

\* pc.ontrack: the remote track `id` of the given kind, received on handle h.
\* Without a media bundle for the peer the handler warns and returns; with
\* one, the track joins the peer's composite stream (created on the first
\* track) in place of the track of that kind the stream held, and the
\* callback of the kind is raised (the bundle always has its video element).
ontrack(st, peerId, h, kind, id) ==
  IF ~st.mediaElements[peerId].present
  THEN st
  ELSE LET kept == {t \in st.mediaElements[peerId].remoteStream : t.kind # kind}
           s1 == [st EXCEPT !.mediaElements[peerId].remoteStream =
                                kept \cup {[kind |-> kind, pc |-> h, id |-> id]}]
       IN Callback(s1, IF kind = "video" THEN "onVideoStreamEstablished"
                                         ELSE "onAudioStreamEstablished", peerId)

\* pc.ondatachannel: the inbound channel the remote peer opened
ondatachannel(st, peerId, h) ==
  [st EXCEPT !.channels = Append(@, NewChannel(h, peerId, "receiver")),
             !.receiverDataChannels[peerId] = Len(st.channels) + 1]

\* senderChannel.onclose / receiveChannel.onclose of channel c: the handler
\* deletes the map entry of the peer the channel was created for, whichever
\* channel the entry holds by then.
onchannelclose(st, c) ==
  LET peerId == st.channels[c].peer
      s1 == [st EXCEPT !.channels[c].closePending = FALSE]
  IN IF st.channels[c].role = "sender"
     THEN [s1 EXCEPT !.senderDataChannels[peerId] = 0]
     ELSE [s1 EXCEPT !.receiverDataChannels[peerId] = 0]

\* senderChannel.onopen / receiveChannel.onopen of channel c: the outbound
\* channel only logs; the inbound one confirms with a DATA message to the
\* peer and raises "data channel ready".
onchannelopen(st, c) ==
  LET peerId == st.channels[c].peer
  IN IF st.channels[c].role = "sender"
     THEN st
     ELSE Callback(sendWebSocketMessage(st, "DATA", st.localPeerId, peerId, "text"),
                   "onDataChannelConnection", peerId)

onnegotiationneeded(st, peerId, h) ==
  IF st.pcs[h].signalingState # "stable"
  THEN _createAndSendOffer(st, peerId, NoCaller)
  ELSE st

---------------------------------------------------------------------------
(* sendViaDataChannel(message, targetPeerId) *)

NoTarget == "null"

\* dc.send(message) on an open channel
Send(st, c, message) == [st EXCEPT !.dcSent = Append(@, <<c, message>>)]

\* Variant of the broadcast loop that gives up at the first channel that is
\* not open: skipping closed channels one by one (C19) must not hold of it.
RECURSIVE SendEach_StopsAtClosed(_, _, _)
SendEach_StopsAtClosed(st, cs, message) ==
  IF cs = <<>> THEN st
  ELSE IF st.channels[Head(cs)].readyState = "open"
  THEN SendEach_StopsAtClosed(Send(st, Head(cs), message), Tail(cs), message)
  ELSE st

\* this.senderDataChannels.forEach((dc, peerId) => ...) over the channels cs
RECURSIVE SendEach(_, _, _)
SendEach(st, cs, message) ==
  IF cs = <<>> THEN st
  ELSE IF st.channels[Head(cs)].readyState = "open"
  THEN SendEach(Send(st, Head(cs), message), Tail(cs), message)
  ELSE SendEach(st, Tail(cs), message)

\* The values of senderDataChannels in insertion order: channels are numbered
\* in creation order and every entry is inserted with a new channel.
SenderChannelsInOrder(st) ==
  SetToSeq({st.senderDataChannels[p] : p \in Keys(st.senderDataChannels)})

\* Variant of sendViaDataChannel that does not look at the state of the
\* target's channel: the no-op on a channel that is not open (C20) must not
\* hold of it.
sendViaDataChannel_Unchecked(st, message, targetPeerId) ==
  IF targetPeerId # NoTarget
  THEN LET dc == st.senderDataChannels[targetPeerId]
       IN IF dc # 0 THEN Send(st, dc, message) ELSE st
  ELSE SendEach(st, SenderChannelsInOrder(st), message)

sendViaDataChannel(st, message, targetPeerId) ==
  IF targetPeerId # NoTarget
  THEN LET dc == st.senderDataChannels[targetPeerId]
       IN IF dc # 0 /\ st.channels[dc].readyState = "open"
          THEN Send(st, dc, message)
          ELSE st
  ELSE SendEach(st, SenderChannelsInOrder(st), message)

---------------------------------------------------------------------------
(* handleMessage: the dispatch of one decoded signaling message, up to the *)
(* first suspension of the handler it calls *)

EnsureSession(st, msg) ==
  IF st.peerConnections[msg.SenderPeerId] = 0
  THEN LET s1 == IF msg.IsVideoAudioSender /\ st.isLocalPeerVideoAudioReceiver
                 THEN _createNewPeerMediaReceivingResources(st, msg.SenderPeerId)
                 ELSE st
       IN _setupPeerConnection(s1, msg.SenderPeerId)
  ELSE st

ToMe(st, msg) == msg.ReceiverPeerId = st.localPeerId \/ msg.ReceiverPeerId = ALL

\* Variant of the NEWPEER case that acknowledges to the sender only: the
\* broadcast acknowledgement (C12) must not hold of it.
caseNEWPEER_AckToSender(st, msg) ==
  IF msg.SenderPeerId = st.localPeerId THEN st
  ELSE LET s1 == IF msg.IsVideoAudioSender /\ st.isLocalPeerVideoAudioReceiver
                 THEN _createNewPeerMediaReceivingResources(st, msg.SenderPeerId)
                 ELSE st
           s2 == _setupPeerConnection(s1, msg.SenderPeerId)
       IN sendWebSocketMessage(s2, "NEWPEERACK", s2.localPeerId, msg.SenderPeerId, "text")

\* Variant of the NEWPEER case without the test of the sender: a table
\* without an entry of the local peer (C39) must not hold of it.
caseNEWPEER_FromAnyone(st, msg) ==
  LET s1 == IF msg.IsVideoAudioSender /\ st.isLocalPeerVideoAudioReceiver
            THEN _createNewPeerMediaReceivingResources(st, msg.SenderPeerId)
            ELSE st
      s2 == _setupPeerConnection(s1, msg.SenderPeerId)
  IN sendWebSocketMessage(s2, "NEWPEERACK", s2.localPeerId, ALL, "text")

caseNEWPEER(st, msg) ==
  IF msg.SenderPeerId = st.localPeerId THEN st
  ELSE LET s1 == IF msg.IsVideoAudioSender /\ st.isLocalPeerVideoAudioReceiver
                 THEN _createNewPeerMediaReceivingResources(st, msg.SenderPeerId)
                 ELSE st
           s2 == _setupPeerConnection(s1, msg.SenderPeerId)
       IN sendWebSocketMessage(s2, "NEWPEERACK", s2.localPeerId, ALL, "text")

\* Variant of the NEWPEERACK case that offers whether or not the local peer
\* sends media: the condition of the offer (C13) must not hold of it.
caseNEWPEERACK_AlwaysOffers(st, msg) ==
  IF msg.SenderPeerId = st.localPeerId THEN st
  ELSE LET s1 == EnsureSession(st, msg)
       IN IF /\ s1.peerConnections[msg.SenderPeerId] # 0
             /\ s1.pcs[s1.peerConnections[msg.SenderPeerId]].signalingState = "stable"
          THEN _createAndSendOffer(s1, msg.SenderPeerId, NoCaller)
          ELSE s1

caseNEWPEERACK(st, msg) ==
  IF msg.SenderPeerId = st.localPeerId THEN st
  ELSE LET s1 == EnsureSession(st, msg)
       IN IF /\ s1.isLocalPeerVideoAudioSender
             /\ s1.peerConnections[msg.SenderPeerId] # 0
             /\ s1.pcs[s1.peerConnections[msg.SenderPeerId]].signalingState = "stable"
          THEN _createAndSendOffer(s1, msg.SenderPeerId, NoCaller)
          ELSE s1

caseOFFER(st, msg) ==
  IF ToMe(st, msg)
  THEN _handleOffer(EnsureSession(st, msg), msg.SenderPeerId, msg.Message)
  ELSE st

\* Variant of the ANSWER case that creates the session it does not find:
\* dropping out-of-context messages (C15) must not hold of it.
caseANSWER_EnsuresSession(st, msg) ==
  IF ToMe(st, msg)
  THEN _handleAnswer(EnsureSession(st, msg), msg.SenderPeerId, msg.Message)
  ELSE st

caseANSWER(st, msg) ==
  IF ToMe(st, msg) THEN _handleAnswer(st, msg.SenderPeerId, msg.Message) ELSE st

caseCANDIDATE(st, msg) ==
  IF ToMe(st, msg) /\ st.peerConnections[msg.SenderPeerId] # 0
  THEN _handleCandidate(st, msg.SenderPeerId, msg.Message)
  ELSE st

caseDISPOSE(st, msg) ==
  IF msg.SenderPeerId # st.localPeerId THEN _cleanupPeer(st, msg.SenderPeerId) ELSE st

\* Variant of the DATA case that does not look at the outbound channel: the
\* condition of the "data channel ready" callback (C28) must not hold of it.
caseDATA_Unchecked(st, msg) ==
  IF msg.ReceiverPeerId = st.localPeerId
  THEN Callback(st, "onDataChannelConnection", msg.SenderPeerId)
  ELSE st

caseDATA(st, msg) ==
  IF /\ msg.ReceiverPeerId = st.localPeerId
     /\ st.senderDataChannels[msg.SenderPeerId] # 0
     /\ st.channels[st.senderDataChannels[msg.SenderPeerId]].readyState = "open"
  THEN Callback(st, "onDataChannelConnection", msg.SenderPeerId)
  ELSE st

\* Variant of the COMPLETE case that makes sure the sender has a session:
\* COMPLETE changing no state (C29) must not hold of it.
caseCOMPLETE_EnsuresSession(st, msg) ==
  IF msg.ReceiverPeerId = st.localPeerId
  THEN Callback(EnsureSession(st, msg), "onWebRTCConnection", msg.SenderPeerId)
  ELSE st

caseCOMPLETE(st, msg) ==
  IF msg.ReceiverPeerId = st.localPeerId
  THEN Callback(st, "onWebRTCConnection", msg.SenderPeerId)
  ELSE st

\* switch (Type): a kind that matches no case is logged and nothing else.
handleMessage(st, msg) ==
  IF msg.Type = "NEWPEER" THEN caseNEWPEER(st, msg)
  ELSE IF msg.Type = "NEWPEERACK" THEN caseNEWPEERACK(st, msg)
  ELSE IF msg.Type = "OFFER" THEN caseOFFER(st, msg)
  ELSE IF msg.Type = "ANSWER" THEN caseANSWER(st, msg)
  ELSE IF msg.Type = "CANDIDATE" THEN caseCANDIDATE(st, msg)
  ELSE IF msg.Type = "DISPOSE" THEN caseDISPOSE(st, msg)
  ELSE IF msg.Type = "DATA" THEN caseDATA(st, msg)
  ELSE IF msg.Type = "COMPLETE" THEN caseCOMPLETE(st, msg)
  ELSE st

---------------------------------------------------------------------------
(* Actions.  Step commits the node state a handler returns: what the       *)
(* handler sent goes to the other attached nodes, and the step is recorded *)
(* in last.                                                                *)

Attached(m) == \E i \in DOMAIN mgr[m].sockets : mgr[m].sockets[i].readyState = "OPEN"

Bounded(st) ==
  /\ Len(st.sockets) <= MaxSockets
  /\ Len(st.pcs) <= MaxPcs
  /\ Len(st.rtpSenders) <= MaxSenders
  /\ BagCardinality(st.tasks) <= MaxTasks

\* The state a handler leaves once it has returned.
Commit(st) == [st EXCEPT !.out = <<>>, !.cb = <<>>, !.dcSent = <<>>, !.uncaught = FALSE]

Pre(n, peerId) == IF peerId \in Ids THEN mgr[n].peerConnections[peerId] ELSE 0

Step(n, st, op, peerId) ==
  /\ Bounded(st)
  /\ \A m \in Nodes \ {n} : Attached(m) => Len(inbox[m]) + Len(st.out) <= MaxInbox
  /\ mgr' = [mgr EXCEPT ![n] = Commit(st)]
  /\ inbox' = [m \in Nodes |->
                 IF m # n /\ Attached(m) THEN inbox[m] \o Encoded(st.out) ELSE inbox[m]]
  /\ last' = [op |-> op, n |-> n, p |-> peerId, pre |-> Pre(n, peerId)]

(* The application's calls *)

Connect(n, isVideoAudioSender, isVideoAudioReceiver) ==
  Step(n, connect(mgr[n], isVideoAudioSender, isVideoAudioReceiver), "connect", NoPeer)

CloseWebRTC(n) ==
  /\ mgr[n].ws # 0
  /\ Step(n, closeWebRTC(mgr[n]), "closeWebRTC", NoPeer)

SendViaDataChannel(n, message, targetPeerId) ==
  /\ mgr[n].ws # 0
  /\ Step(n, sendViaDataChannel(mgr[n], message, targetPeerId), "sendViaDataChannel",
          targetPeerId)

CloseWebSocket(n) ==
  /\ mgr[n].ws # 0
  /\ Step(n, closeWebSocket(mgr[n]), "closeWebSocket", NoPeer)

InitiateOffersToAllPeers(n) ==
  /\ mgr[n].ws # 0
  /\ Step(n, initiateOffersToAllPeers(mgr[n]), "initiateOffersToAllPeers", NoPeer)

SetLocalStream(n, stream) ==
  /\ mgr[n].ws # 0
  /\ Step(n, setLocalStream(mgr[n], stream), "setLocalStream", NoPeer)

CreateAndSendOffer(n, peerId) ==
  /\ mgr[n].ws # 0
  /\ Step(n, _createAndSendOffer(mgr[n], peerId, NoCaller), "_createAndSendOffer", peerId)

(* The transport's events on socket i of node n *)

WsOpen(n, i) ==
  /\ i \in DOMAIN mgr[n].sockets
  /\ mgr[n].sockets[i].readyState = "CONNECTING"
  /\ Step(n, onopen([mgr[n] EXCEPT !.sockets[i].readyState = "OPEN"], i), "onopen", NoPeer)

\* A failing connection reports error and then close; the application's
\* callbacks run in between.
WsError(n, i) ==
  /\ i \in DOMAIN mgr[n].sockets
  /\ mgr[n].sockets[i].readyState \in {"CONNECTING", "OPEN", "CLOSING"}
  /\ Step(n, onerror([mgr[n] EXCEPT !.sockets[i].readyState = "CLOSED",
                                    !.sockets[i].closePending = TRUE], i),
          "onerror", NoPeer)

WsClose(n, i) ==
  /\ i \in DOMAIN mgr[n].sockets
  /\ \/ mgr[n].sockets[i].readyState \in {"CONNECTING", "OPEN", "CLOSING"}
     \/ mgr[n].sockets[i].closePending
  /\ Step(n, onclose([mgr[n] EXCEPT !.sockets[i].readyState = "CLOSED",
                                    !.sockets[i].closePending = FALSE], i),
          "onclose", NoPeer)

(* Signaling messages: one sent by the environment, or the next relayed one *)

CanReceive(n) ==
  \E i \in DOMAIN mgr[n].sockets : mgr[n].sockets[i].readyState \in {"OPEN", "CLOSING"}

Receive(n, msg) ==
  /\ CanReceive(n)
  /\ Step(n, handleMessage(mgr[n], msg), msg.Type, msg.SenderPeerId)

\* A text arrives on the socket and is decoded.
ReceiveText(n, parts) == Receive(n, ParseSignalingMessage(parts))

\* The relay passes on to node n a text another peer has sent.
RelayText(n, x) ==
  /\ CanReceive(n)
  /\ Len(inbox[n]) < MaxInbox
  /\ inbox' = [inbox EXCEPT ![n] = Append(@, x)]
  /\ UNCHANGED mgr
  /\ last' = [op |-> "relay", n |-> n, p |-> NoPeer, pre |-> 0]

Deliver(n) ==
  /\ CanReceive(n)
  /\ inbox[n] # <<>>
  /\ LET msg == ParseSignalingMessage(Head(inbox[n]))
         st == handleMessage(mgr[n], msg)
     IN /\ Bounded(st)
        /\ \A m \in Nodes \ {n} : Attached(m) => Len(inbox[m]) + Len(st.out) <= MaxInbox
        /\ mgr' = [mgr EXCEPT ![n] = Commit(st)]
        /\ inbox' = [m \in Nodes |->
                       IF m = n THEN Tail(inbox[n])
                       ELSE IF Attached(m) THEN inbox[m] \o Encoded(st.out) ELSE inbox[m]]
        /\ last' = [op |-> msg.Type, n |-> n, p |-> msg.SenderPeerId,
                    pre |-> Pre(n, msg.SenderPeerId)]

(* Settled engine operations: a pending continuation goes on *)

SetLocalOfferSettles(n, t, accept) ==
  /\ t \in DOMAIN mgr[n].tasks
  /\ t.op = "_createAndSendOffer"
  /\ Step(n, OfferSetLocal(mgr[n], t, accept), "setLocalDescription(offer)",
          mgr[n].pcs[t.pc].peer)

HandleOfferSettles(n, t, accept) ==
  /\ t \in DOMAIN mgr[n].tasks
  /\ t.op = "_handleOffer"
  /\ Step(n, HandleOfferStep(mgr[n], t, accept), "_handleOffer:" \o t.stage,
          mgr[n].pcs[t.pc].peer)

HandleAnswerSettles(n, t, accept) ==
  /\ t \in DOMAIN mgr[n].tasks
  /\ t.op = "_handleAnswer"
  /\ Step(n, HandleAnswerStep(mgr[n], t, accept), "_handleAnswer:" \o t.stage,
          mgr[n].pcs[t.pc].peer)

(* The engine's events on handle h of node n *)

IceNext(state) ==
  IF state = "new" THEN {"connected", "completed", "failed"}
  ELSE IF state = "connected" THEN {"completed", "disconnected"}
  ELSE IF state = "completed" THEN {"disconnected"}
  ELSE {}

IceConnectionStateChange(n, h, state) ==
  /\ h \in DOMAIN mgr[n].pcs
  /\ mgr[n].pcs[h].remoteDescription
  /\ mgr[n].pcs[h].signalingState = "stable"
  /\ state \in IceNext(mgr[n].pcs[h].iceConnectionState)
  /\ Step(n, oniceconnectionstatechange(
                [mgr[n] EXCEPT !.pcs[h].iceConnectionState = state], mgr[n].pcs[h].peer, h),
          "ice:" \o state, mgr[n].pcs[h].peer)

\* The remote peer's data channel arrives once, on a connected handle.
DataChannel(n, h) ==
  /\ h \in DOMAIN mgr[n].pcs
  /\ mgr[n].pcs[h].iceConnectionState \in {"connected", "completed"}
  /\ \A c \in DOMAIN mgr[n].channels :
        ~(mgr[n].channels[c].pc = h /\ mgr[n].channels[c].role = "receiver")
  /\ Step(n, ondatachannel(mgr[n], mgr[n].pcs[h].peer, h),
          "ondatachannel", mgr[n].pcs[h].peer)

\* A channel of a connected handle opens.
ChannelOpen(n, c) ==
  /\ c \in DOMAIN mgr[n].channels
  /\ mgr[n].channels[c].readyState = "connecting"
  /\ mgr[n].pcs[mgr[n].channels[c].pc].iceConnectionState \in {"connected", "completed"}
  /\ Step(n, onchannelopen([mgr[n] EXCEPT !.channels[c].readyState = "open"], c),
          "onchannelopen", mgr[n].channels[c].peer)

\* The remote peer closes an open channel: the channel is closed at once,
\* its close event follows.
RemoteClosesChannel(n, c) ==
  /\ c \in DOMAIN mgr[n].channels
  /\ mgr[n].channels[c].readyState = "open"
  /\ Step(n, [mgr[n] EXCEPT !.channels[c].readyState = "closed",
                            !.channels[c].closePending = TRUE],
          "channel closed", mgr[n].channels[c].peer)

\* The close event of a channel that pc.close() or the remote peer closed.
ChannelClose(n, c) ==
  /\ c \in DOMAIN mgr[n].channels
  /\ mgr[n].channels[c].closePending
  /\ Step(n, onchannelclose(mgr[n], c), "onchannelclose", mgr[n].channels[c].peer)

\* A remote track arrives on a handle whose remote description is set.
Track(n, h, kind, id) ==
  /\ h \in DOMAIN mgr[n].pcs
  /\ mgr[n].pcs[h].remoteDescription
  /\ Step(n, ontrack(mgr[n], mgr[n].pcs[h].peer, h, kind, id), "ontrack", mgr[n].pcs[h].peer)

\* The engine may report that negotiation is needed whenever the handle is
\* open (after createDataChannel, addTrack, removeTrack, a rollback).
NegotiationNeeded(n, h) ==
  /\ h \in DOMAIN mgr[n].pcs
  /\ mgr[n].pcs[h].signalingState # "closed"
  /\ Step(n, onnegotiationneeded(mgr[n], mgr[n].pcs[h].peer, h),
          "onnegotiationneeded", mgr[n].pcs[h].peer)

---------------------------------------------------------------------------
(* The specifications.  In all of them the orchestrators start as their    *)
(* constructor leaves them. *)

Local == "A"

Init ==
  /\ mgr = [n \in Nodes |-> InitMgr(n)]
  /\ inbox = [n \in Nodes |-> <<>>]
  /\ last = [op |-> "constructor", n |-> NoPeer, p |-> NoPeer, pre |-> 0]

\* The signaling messages the peers in `from` may send to A.
PresenceMessages(from) ==
  {SignalingMessage(type, s, ALL, "text", 0, av) :
     type \in {"NEWPEER", "NEWPEERACK"}, s \in from, av \in BOOLEAN}

DisposeMessages(from) ==
  {SignalingMessage("DISPOSE", s, ALL, "text", 0, FALSE) : s \in from}

OfferMessages(from) ==
  {SignalingMessage("OFFER", s, r, "offer", 0, av) :
     s \in from, r \in {Local, ALL}, av \in BOOLEAN}

AnswerMessages(from) ==
  {SignalingMessage("ANSWER", s, Local, "answer", 0, FALSE) : s \in from}

(* Spec: one orchestrator, A, on a transport that stays up, negotiating    *)
(* with one peer, B: the application's calls that start offers, the        *)
(* engine's events, and any signaling message B may send. *)

Next ==
  \/ \E s \in BOOLEAN, r \in BOOLEAN : Connect(Local, s, r)
  \/ WsOpen(Local, 1)
  \/ \E msg \in PresenceMessages({"B"}) \cup DisposeMessages({"B"})
                  \cup OfferMessages({"B"}) \cup AnswerMessages({"B"}) :
       Receive(Local, msg)
  \/ InitiateOffersToAllPeers(Local)
  \/ SetLocalStream(Local, "S1")
  \/ CreateAndSendOffer(Local, "B")
  \/ \E h \in 1..MaxPcs : NegotiationNeeded(Local, h)
  \/ \E t \in DOMAIN mgr[Local].tasks, accept \in BOOLEAN : SetLocalOfferSettles(Local, t, accept)
  \/ \E t \in DOMAIN mgr[Local].tasks, accept \in BOOLEAN : HandleOfferSettles(Local, t, accept)
  \/ \E t \in DOMAIN mgr[Local].tasks, accept \in BOOLEAN : HandleAnswerSettles(Local, t, accept)

Spec == Init /\ [][Next]_vars

(* SpecSeq: as Spec, but every call and every message waits until the      *)
(* asynchronous operation started before it has finished (the calls are    *)
(* awaited, one after the other). *)

Idle(n) == mgr[n].tasks = EmptyBag

NextSeq ==
  \/ \E s \in BOOLEAN, r \in BOOLEAN : Connect(Local, s, r)
  \/ WsOpen(Local, 1)
  \/ /\ Idle(Local)
     /\ \E msg \in PresenceMessages({"B"}) \cup DisposeMessages({"B"})
                     \cup OfferMessages({"B"}) \cup AnswerMessages({"B"}) :
          Receive(Local, msg)
  \/ Idle(Local) /\ CreateAndSendOffer(Local, "B")
  \/ \E t \in DOMAIN mgr[Local].tasks, accept \in BOOLEAN : SetLocalOfferSettles(Local, t, accept)
  \/ \E t \in DOMAIN mgr[Local].tasks, accept \in BOOLEAN : HandleOfferSettles(Local, t, accept)
  \/ \E t \in DOMAIN mgr[Local].tasks, accept \in BOOLEAN : HandleAnswerSettles(Local, t, accept)

SpecSeq == Init /\ [][NextSeq]_vars

(* SpecLife: the life of the session of A, which sends and receives       *)
(* media, with one peer, B, and of the resources the session owns: local   *)
(* media, data channels and their late close events, remote tracks,       *)
(* teardown on DISPOSE and on a connectivity failure, and the sessions B   *)
(* gets when it comes back.                                                *)
(* Calls and messages wait for the pending asynchronous operation, as in   *)
(* SpecSeq. *)

NextLife ==
  \/ Connect(Local, TRUE, TRUE)
  \/ WsOpen(Local, 1)
  \/ \E msg \in {m \in PresenceMessages({"B"}) : m.Type = "NEWPEER"} \cup DisposeMessages({"B"}) :
       Receive(Local, msg)
  \/ /\ Idle(Local)
     /\ \E msg \in {m \in OfferMessages({"B"}) :
                      m.ReceiverPeerId = Local /\ m.IsVideoAudioSender} :
          Receive(Local, msg)
  \/ Idle(Local) /\ SetLocalStream(Local, "S1")
  \/ \E t \in DOMAIN mgr[Local].tasks, accept \in BOOLEAN : SetLocalOfferSettles(Local, t, accept)
  \/ \E t \in DOMAIN mgr[Local].tasks, accept \in BOOLEAN : HandleOfferSettles(Local, t, accept)
  \/ \E h \in 1..MaxPcs, state \in {"connected", "failed"} :
       IceConnectionStateChange(Local, h, state)
  \/ \E h \in 1..MaxPcs : DataChannel(Local, h)
  \/ \E h \in 1..MaxPcs : Track(Local, h, "video", 1)
  \/ \E c \in DOMAIN mgr[Local].channels : ChannelClose(Local, c)

SpecLife == Init /\ [][NextLife]_vars

(* SpecPeers: the sessions of A, which sends media, with two peers, B and *)
(* C, that come, offer, leave and fail independently of each other. *)

NextPeers ==
  \/ Connect(Local, TRUE, TRUE)
  \/ WsOpen(Local, 1)
  \/ \E msg \in {m \in PresenceMessages({"B", "C"}) : m.Type = "NEWPEER" /\ ~m.IsVideoAudioSender}
                  \cup DisposeMessages({"B", "C"}) :
       Receive(Local, msg)
  \/ /\ Idle(Local)
     /\ \E msg \in {m \in OfferMessages({"B", "C"}) :
                      m.ReceiverPeerId = Local /\ ~m.IsVideoAudioSender} :
          Receive(Local, msg)
  \/ Idle(Local) /\ SetLocalStream(Local, "S1")
  \/ \E t \in DOMAIN mgr[Local].tasks, accept \in BOOLEAN : SetLocalOfferSettles(Local, t, accept)
  \/ \E t \in DOMAIN mgr[Local].tasks, accept \in BOOLEAN : HandleOfferSettles(Local, t, accept)
  \/ \E h \in 1..MaxPcs : IceConnectionStateChange(Local, h, "failed")

SpecPeers == Init /\ [][NextPeers]_vars

(* SpecIce: the connectivity states the engine reports for the sessions of *)
(* A with B, which offers, leaves and comes back. *)

NextIce ==
  \/ \E r \in BOOLEAN : Connect(Local, FALSE, r)
  \/ WsOpen(Local, 1)
  \/ /\ Idle(Local)
     /\ \E msg \in OfferMessages({"B"}) \cup DisposeMessages({"B"}) : Receive(Local, msg)
  \/ \E t \in DOMAIN mgr[Local].tasks, accept \in BOOLEAN : HandleOfferSettles(Local, t, accept)
  \/ \E h \in 1..MaxPcs, state \in {"connected", "completed", "disconnected", "failed"} :
       IceConnectionStateChange(Local, h, state)

SpecIce == Init /\ [][NextIce]_vars

(* SpecWs: the signaling transport of A: the application connects, as a   *)
(* media sender or as a media receiver, and closes at any time, every      *)
(* socket A created reports its events, and B announces itself so that     *)
(* there are sessions to tear down. *)

NextWs ==
  \/ \E s \in BOOLEAN : Connect(Local, s, ~s)
  \/ CloseWebSocket(Local)
  \/ \E i \in 1..MaxSockets : WsOpen(Local, i)
  \/ \E i \in 1..MaxSockets : WsError(Local, i)
  \/ \E i \in 1..MaxSockets : WsClose(Local, i)
  \/ Receive(Local, SignalingMessage("NEWPEER", "B", ALL, "text", 0, FALSE))

SpecWs == Init /\ [][NextWs]_vars

(* SpecPair: two orchestrators, A and B, on one signaling relay.  B        *)
(* connects after the transport of A has opened; nothing happens but the   *)
(* protocol's own reactions and the engine's events. *)

NextPair ==
  \/ \E s \in BOOLEAN, r \in BOOLEAN : mgr["A"].ws = 0 /\ Connect("A", s, r)
  \/ \E s \in BOOLEAN, r \in BOOLEAN :
       mgr["B"].ws = 0 /\ WsIsOpen(mgr["A"]) /\ Connect("B", s, r)
  \/ \E n \in Nodes : WsOpen(n, 1)
  \/ \E n \in Nodes : Deliver(n)
  \/ \E n \in Nodes, h \in 1..MaxPcs : NegotiationNeeded(n, h)
  \/ \E n \in Nodes : \E t \in DOMAIN mgr[n].tasks, accept \in BOOLEAN :
       SetLocalOfferSettles(n, t, accept)
  \/ \E n \in Nodes : \E t \in DOMAIN mgr[n].tasks, accept \in BOOLEAN :
       HandleOfferSettles(n, t, accept)
  \/ \E n \in Nodes : \E t \in DOMAIN mgr[n].tasks, accept \in BOOLEAN :
       HandleAnswerSettles(n, t, accept)

SpecPair == Init /\ [][NextPair]_vars

(* SpecClose: A, which sends media to B and C, leaves: the application     *)
(* closes the transport and calls closeWebRTC(), in either order. *)

NextClose ==
  \/ Connect(Local, TRUE, TRUE)
  \/ WsOpen(Local, 1)
  \/ CloseWebSocket(Local)
  \/ \E p \in {"B", "C"} :
       Receive(Local, SignalingMessage("NEWPEER", p, ALL, "text", 0, FALSE))
  \/ Idle(Local) /\ SetLocalStream(Local, "S1")
  \/ \E t \in DOMAIN mgr[Local].tasks, accept \in BOOLEAN : SetLocalOfferSettles(Local, t, accept)
  \/ CloseWebRTC(Local)

SpecClose == Init /\ [][NextClose]_vars

(* SpecData: the outbound data channels of A towards B and C, which offer, *)
(* connect, open their channels, close them and leave, and the              *)
(* application's sends on them. *)

NextData ==
  \/ Connect(Local, FALSE, FALSE)
  \/ WsOpen(Local, 1)
  \/ /\ Idle(Local)
     /\ \E p \in {"B", "C"} :
          Receive(Local, SignalingMessage("OFFER", p, Local, "offer", 0, FALSE))
  \/ Receive(Local, SignalingMessage("DISPOSE", "B", ALL, "text", 0, FALSE))
  \/ \E t \in DOMAIN mgr[Local].tasks, accept \in BOOLEAN : HandleOfferSettles(Local, t, accept)
  \/ \E h \in 1..MaxPcs : IceConnectionStateChange(Local, h, "connected")
  \/ \E c \in DOMAIN mgr[Local].channels : ChannelOpen(Local, c)
  \/ \E c \in DOMAIN mgr[Local].channels : RemoteClosesChannel(Local, c)
  \/ \E c \in DOMAIN mgr[Local].channels : ChannelClose(Local, c)
  \/ \E target \in {NoTarget, "B", "C"} : SendViaDataChannel(Local, "text", target)

SpecData == Init /\ [][NextData]_vars

(* SpecMsg: the dispatch of A, on a transport that is open or closing, of  *)
(* every kind of text the relay may deliver: the eight kinds, from B and    *)
(* from A itself, addressed to A, to ALL and to a third peer, with payloads *)
(* that parse and payloads that do not, the announcement of a third peer,  *)
(* C, and texts of no known kind.  A text is handled when the handling of   *)
(* the one before has finished. *)

PayloadsOf(type) ==
  IF type = "OFFER" THEN {"offer", "text"}
  ELSE IF type = "ANSWER" THEN {"answer", "text"}
  ELSE IF type = "CANDIDATE" THEN {"candidate", "text"}
  ELSE {"text"}

MessageTexts ==
  {<<type, s, r, m, "1", f>> :
     type \in SignalingMessageType, s \in Ids, r \in {Local, ALL, "C"},
     m \in Payloads, f \in {"True", "false"}}

\* The texts of the known kinds that are delivered: a field takes several
\* values only where the case of its kind reads it.
ReceiversOf(type) ==
  IF type = "OFFER" THEN {Local, ALL, "C"}
  ELSE IF type \in {"ANSWER", "CANDIDATE"} THEN {Local, "C"}
  ELSE IF type \in {"DATA", "COMPLETE"} THEN {Local}
  ELSE {ALL}

SendersOf(type) ==
  IF type = "NEWPEER" THEN {"B", "C", Local}
  ELSE IF type \in {"NEWPEERACK", "DISPOSE"} THEN {"B", Local}
  ELSE {"B"}

FlagsOf(type) ==
  IF type \in {"NEWPEER", "NEWPEERACK", "OFFER"} THEN {"True", "false"} ELSE {"false"}

KnownTexts ==
  {x \in MessageTexts : /\ x[2] \in SendersOf(x[1])
                        /\ x[3] \in ReceiversOf(x[1])
                        /\ x[4] \in PayloadsOf(x[1])
                        /\ x[6] \in FlagsOf(x[1])}

GarbageTexts ==
  { <<"">>, <<"garbage">>, <<"newpeer", "B", ALL, "text", "1", "True">>,
    <<"HELLO", "B", Local, "offer", "1", "false">> }

NextMsg ==
  \/ \E s \in BOOLEAN : Connect(Local, s, ~s)
  \/ WsOpen(Local, 1)
  \/ CloseWebSocket(Local)
  \/ Idle(Local) /\ \E x \in KnownTexts \cup GarbageTexts : ReceiveText(Local, x)
  \/ \E t \in DOMAIN mgr[Local].tasks, accept \in BOOLEAN : SetLocalOfferSettles(Local, t, accept)
  \/ \E t \in DOMAIN mgr[Local].tasks, accept \in BOOLEAN : HandleOfferSettles(Local, t, accept)
  \/ \E t \in DOMAIN mgr[Local].tasks, accept \in BOOLEAN : HandleAnswerSettles(Local, t, accept)

SpecMsg == Init /\ [][NextMsg]_vars

(* SpecOffers: A, which sends media, knows B and C and offers to all of    *)
(* them at the application's request, while B and C offer on their own,     *)
(* answer, and B leaves. *)

NextOffers ==
  \/ Connect(Local, TRUE, FALSE)
  \/ WsOpen(Local, 1)
  \/ \E p \in {"B", "C"} :
       Receive(Local, SignalingMessage("NEWPEER", p, ALL, "text", 0, FALSE))
  \/ \E p \in {"B", "C"} :
       Receive(Local, SignalingMessage("OFFER", p, Local, "offer", 0, FALSE))
  \/ \E p \in {"B", "C"} :
       Receive(Local, SignalingMessage("ANSWER", p, Local, "answer", 0, FALSE))
  \/ Receive(Local, SignalingMessage("DISPOSE", "B", ALL, "text", 0, FALSE))
  \/ Idle(Local) /\ InitiateOffersToAllPeers(Local)
  \/ \E t \in DOMAIN mgr[Local].tasks, accept \in BOOLEAN : SetLocalOfferSettles(Local, t, accept)
  \/ \E t \in DOMAIN mgr[Local].tasks, accept \in BOOLEAN : HandleOfferSettles(Local, t, accept)
  \/ \E t \in DOMAIN mgr[Local].tasks, accept \in BOOLEAN : HandleAnswerSettles(Local, t, accept)

SpecOffers == Init /\ [][NextOffers]_vars

(* SpecMedia: the local media of A, which sends to B and C, or does not    *)
(* send: the application sets a stream, replaces it by another, by one that *)
(* has no audio, or clears it, each call awaited; B and C answer the        *)
(* offers. *)

NextMedia ==
  \/ \E s \in BOOLEAN : Connect(Local, s, FALSE)
  \/ WsOpen(Local, 1)
  \/ \E p \in {"B", "C"} :
       Receive(Local, SignalingMessage("NEWPEER", p, ALL, "text", 0, FALSE))
  \/ /\ Idle(Local)
     /\ \E p \in {"B", "C"} :
          Receive(Local, SignalingMessage("ANSWER", p, Local, "answer", 0, FALSE))
  \/ Idle(Local) /\ \E stream \in {"S1", "SV", "null"} : SetLocalStream(Local, stream)
  \/ \E t \in DOMAIN mgr[Local].tasks, accept \in BOOLEAN : SetLocalOfferSettles(Local, t, accept)
  \/ \E t \in DOMAIN mgr[Local].tasks, accept \in BOOLEAN : HandleAnswerSettles(Local, t, accept)

SpecMedia == Init /\ [][NextMedia]_vars

(* SpecTracks: the remote media A gets from B and C, which offer, with or  *)
(* without announcing themselves as media senders, to an A that wants to    *)
(* receive media or does not; tracks of both kinds arrive, again after a    *)
(* renegotiation, and B leaves and comes back. *)

TrackIds == {1, 2}

NextTracks ==
  \/ \E r \in BOOLEAN : Connect(Local, FALSE, r)
  \/ WsOpen(Local, 1)
  \/ /\ Idle(Local)
     /\ \E p \in {"B", "C"}, av \in BOOLEAN :
          Receive(Local, SignalingMessage("OFFER", p, Local, "offer", 0, av))
  \/ Receive(Local, SignalingMessage("DISPOSE", "B", ALL, "text", 0, FALSE))
  \/ \E t \in DOMAIN mgr[Local].tasks, accept \in BOOLEAN : HandleOfferSettles(Local, t, accept)
  \/ \E h \in 1..MaxPcs, kind \in {"video", "audio"}, id \in TrackIds :
       Track(Local, h, kind, id)

SpecTracks == Init /\ [][NextTracks]_vars

(* SpecCodec: the texts on the wire towards A: the encodings of messages   *)
(* B sends (with counts 0 and 2, either flag, and payloads that are plain,  *)
(* empty, or hold the delimiter), and texts of other senders with fewer     *)
(* fields or other spellings of the flag.  A decodes and dispatches them in *)
(* order. *)

CodecMessages ==
  {SignalingMessage(type, "B", IF type = "DATA" THEN Local ELSE ALL, m, c, f) :
     type \in {"NEWPEER", "DATA"}, m \in {"text", "", WithDelimiter},
     c \in {0, 2}, f \in BOOLEAN}

ShortTexts ==
  { <<"DATA">>, <<"DATA", "B">>, <<"DATA", "B", Local, "text">>,
    <<"DATA", "B", Local, "text", "1">>, <<"DATA", "B", Local, "text", "", "TRUE">>,
    <<"DATA", "B", Local, "text", "1", "tRuE">>, <<"DATA", "B", Local, "text", "1", "yes">> }

NextCodec ==
  \/ Connect(Local, FALSE, FALSE)
  \/ WsOpen(Local, 1)
  \/ \E msg \in CodecMessages : RelayText(Local, toString(msg))
  \/ \E x \in ShortTexts : RelayText(Local, x)
  \/ Deliver(Local)

SpecCodec == Init /\ [][NextCodec]_vars

(* SpecAck: the acknowledgements A gets from B and C, DATA and COMPLETE,    *)
(* addressed to A, to ALL and to a third peer, while the sessions with B    *)
(* and C are created by their offers, connect, open and close their         *)
(* outbound channels, and B leaves. *)

AckTexts ==
  {<<type, s, r, "text", "1", "false">> :
     type \in {"DATA", "COMPLETE"}, s \in {"B", "C"}, r \in {Local, ALL, "C"}}

NextAck ==
  \/ Connect(Local, FALSE, FALSE)
  \/ WsOpen(Local, 1)
  \/ /\ Idle(Local)
     /\ \E p \in {"B", "C"} :
          Receive(Local, SignalingMessage("OFFER", p, Local, "offer", 0, FALSE))
  \/ Receive(Local, SignalingMessage("DISPOSE", "B", ALL, "text", 0, FALSE))
  \/ \E t \in DOMAIN mgr[Local].tasks, accept \in BOOLEAN : HandleOfferSettles(Local, t, accept)
  \/ \E h \in 1..MaxPcs : IceConnectionStateChange(Local, h, "connected")
  \/ \E c \in DOMAIN mgr[Local].channels : ChannelOpen(Local, c)
  \/ \E c \in DOMAIN mgr[Local].channels : RemoteClosesChannel(Local, c)
  \/ \E c \in DOMAIN mgr[Local].channels : ChannelClose(Local, c)
  \/ \E x \in AckTexts : ReceiveText(Local, x)

SpecAck == Init /\ [][NextAck]_vars

(* SpecGlare: two orchestrators, A and B, on one signaling relay, as in     *)
(* SpecPair, that both send media, and a third peer, C, whose NEWPEER the   *)
(* relay passes on to each of them, once. *)

\* The announcement of C as the relay passes it on; C announces itself once.
NewPeerC == toString(SignalingMessage("NEWPEER", "C", ALL, "text", 0, FALSE))

NextGlare ==
  \/ mgr["A"].ws = 0 /\ Connect("A", TRUE, FALSE)
  \/ mgr["B"].ws = 0 /\ WsIsOpen(mgr["A"]) /\ Connect("B", TRUE, FALSE)
  \/ \E n \in Nodes : WsOpen(n, 1)
  \/ \E n \in Nodes :
       /\ mgr[n].peerConnections["C"] = 0
       /\ NewPeerC \notin Range(inbox[n])
       /\ RelayText(n, NewPeerC)
  \/ \E n \in Nodes : Deliver(n)
  \/ \E n \in Nodes : \E t \in DOMAIN mgr[n].tasks, accept \in BOOLEAN :
       SetLocalOfferSettles(n, t, accept)
  \/ \E n \in Nodes : \E t \in DOMAIN mgr[n].tasks, accept \in BOOLEAN :
       HandleOfferSettles(n, t, accept)
  \/ \E n \in Nodes : \E t \in DOMAIN mgr[n].tasks, accept \in BOOLEAN :
       HandleAnswerSettles(n, t, accept)

SpecGlare == Init /\ [][NextGlare]_vars

(* SpecFail: what happens to the session of A, which receives media, with  *)
(* B: B announces itself, offers and leaves, any number of times; the engine *)
(* reports every connectivity state, the inbound channel, channel opens     *)
(* and closes and negotiation-needed; the application leaves, and the       *)
(* transport closes. *)

FailTexts ==
  {<<"NEWPEER", "B", ALL, "text", "1", "true">>,
   <<"OFFER", "B", Local, "offer", "1", "true">>,
   <<"DISPOSE", "B", ALL, "text", "1", "false">>}

NextFail ==
  \/ Connect(Local, FALSE, TRUE)
  \/ WsOpen(Local, 1)
  \/ WsClose(Local, 1)
  \/ CloseWebRTC(Local)
  \/ Idle(Local) /\ \E x \in FailTexts : ReceiveText(Local, x)
  \/ \E t \in DOMAIN mgr[Local].tasks, accept \in BOOLEAN : HandleOfferSettles(Local, t, accept)
  \/ \E h \in 1..MaxPcs, state \in {"connected", "completed", "disconnected", "failed"} :
       IceConnectionStateChange(Local, h, state)
  \/ \E h \in 1..MaxPcs : DataChannel(Local, h)
  \/ \E h \in 1..MaxPcs : NegotiationNeeded(Local, h)
  \/ \E c \in DOMAIN mgr[Local].channels : ChannelOpen(Local, c)
  \/ \E c \in DOMAIN mgr[Local].channels : RemoteClosesChannel(Local, c)
  \/ \E c \in DOMAIN mgr[Local].channels : ChannelClose(Local, c)

SpecFail == Init /\ [][NextFail]_vars

(* SpecEcho: A on a signaling server that passes every message to every   *)
(* client, the sender included: besides what B sends, A receives its own   *)
(* NEWPEER, NEWPEERACK and DISPOSE broadcasts and its own OFFER, ANSWER,   *)
(* CANDIDATE and DATA messages to a peer it has had a session with.        *)

EchoTexts(st) ==
  {toString(SignalingMessage(type, st.localPeerId, ALL, "text", 0, st.isLocalPeerVideoAudioSender)) :
     type \in {"NEWPEER", "NEWPEERACK", "DISPOSE"}}
  \cup
  {toString(SignalingMessage(x[1], st.localPeerId, p, x[2], 0, st.isLocalPeerVideoAudioSender)) :
     x \in {<<"OFFER", "offer">>, <<"ANSWER", "answer">>,
            <<"CANDIDATE", "candidate">>, <<"DATA", "text">>},
     p \in {q \in Ids \ {st.localPeerId} : \E h \in DOMAIN st.pcs : st.pcs[h].peer = q}}

NextEcho ==
  \/ \E s \in BOOLEAN : Connect(Local, s, TRUE)
  \/ WsOpen(Local, 1)
  \/ CloseWebRTC(Local)
  \/ /\ Idle(Local)
     /\ inbox[Local] = <<>>
     /\ \E msg \in PresenceMessages({"B"}) \cup DisposeMessages({"B"})
                     \cup {m \in OfferMessages({"B"}) : m.ReceiverPeerId = Local}
                     \cup AnswerMessages({"B"}) :
          Receive(Local, msg)
  \/ inbox[Local] = <<>> /\ \E x \in EchoTexts(mgr[Local]) : RelayText(Local, x)
  \/ Deliver(Local)
  \/ \E t \in DOMAIN mgr[Local].tasks, accept \in BOOLEAN : SetLocalOfferSettles(Local, t, accept)
  \/ \E t \in DOMAIN mgr[Local].tasks, accept \in BOOLEAN : HandleOfferSettles(Local, t, accept)
  \/ \E t \in DOMAIN mgr[Local].tasks, accept \in BOOLEAN : HandleAnswerSettles(Local, t, accept)

SpecEcho == Init /\ [][NextEcho]_vars

(* SpecShake: the handshake of the data channel A opens to B.  A and B,    *)
(* on one signaling relay, negotiate (B, which sends media and comes       *)
(* second, offers on A's acknowledgement) and connect; the channel A       *)
(* created arrives at B and opens at either end, in either                 *)
(* order, and the relay delivers what B sends.  The events of the channel  *)
(* B opens to A are left out: they belong to a handshake of their own.     *)
(* Every message in flight is delivered and no step that can be taken is   *)
(* put off for ever.                                                       *)

NextShake ==
  \/ \E s \in BOOLEAN, r \in BOOLEAN : mgr["A"].ws = 0 /\ Connect("A", s, r)
  \/ \E r \in BOOLEAN : mgr["B"].ws = 0 /\ WsIsOpen(mgr["A"]) /\ Connect("B", TRUE, r)
  \/ \E n \in Nodes : WsOpen(n, 1)
  \/ \E n \in Nodes : Deliver(n)
  \/ \E n \in Nodes : \E t \in DOMAIN mgr[n].tasks, accept \in BOOLEAN :
       SetLocalOfferSettles(n, t, accept)
  \/ \E n \in Nodes : \E t \in DOMAIN mgr[n].tasks, accept \in BOOLEAN :
       HandleOfferSettles(n, t, accept)
  \/ \E n \in Nodes : \E t \in DOMAIN mgr[n].tasks, accept \in BOOLEAN :
       HandleAnswerSettles(n, t, accept)
  \/ \E n \in Nodes, h \in 1..MaxPcs, state \in {"connected", "completed"} :
       IceConnectionStateChange(n, h, state)
  \/ \E h \in 1..MaxPcs : DataChannel("B", h)
  \/ \E c \in DOMAIN mgr["A"].channels :
       mgr["A"].channels[c].role = "sender" /\ ChannelOpen("A", c)
  \/ \E c \in DOMAIN mgr["B"].channels :
       mgr["B"].channels[c].role = "receiver" /\ ChannelOpen("B", c)

SpecShake ==
  /\ Init
  /\ [][NextShake]_vars
  /\ WF_vars(NextShake)
  /\ \A n \in Nodes : WF_vars(Deliver(n))

---------------------------------------------------------------------------
(* Properties *)

SessionOf(n, peerId) == mgr[n].pcs[mgr[n].peerConnections[peerId]]

\* C1: when the calls are awaited one after the other (SpecSeq), a session
\* has sent at most one OFFER since it was last stable; the offer a call
\* starts while the transport is open sends exactly one; and a further
\* _createAndSendOffer for a peer whose session is not stable (no ANSWER
\* applied yet) changes no state at all.
C1_NegotiationGuard ==
  \A p \in Keys(mgr[Local].peerConnections) :
    LET pc == SessionOf(Local, p) IN
    /\ pc.offersSinceStable <= 1
    /\ pc.signalingState # "stable"
         => _createAndSendOffer(mgr[Local], p, NoCaller) = mgr[Local]
    /\ ( /\ last.op = "setLocalDescription(offer)"
         /\ last.p = p
         /\ pc.signalingState = "have-local-offer"
         /\ WsIsOpen(mgr[Local]) )
         => pc.offersSinceStable = 1

\* The second call has been made: the session of B has its offer out, and
\* _createAndSendOffer("B") was called again and returned.
C1_Witness ==
  /\ last.op = "_createAndSendOffer"
  /\ last.p = "B"
  /\ mgr[Local].peerConnections["B"] # 0
  /\ SessionOf(Local, "B").signalingState = "have-local-offer"
  /\ SessionOf(Local, "B").offersSinceStable = 1
  /\ Idle(Local)

\* C2: under every interleaving of the offer triggers (Spec), at most one
\* OFFER is sent to a peer between two consecutive returns of its session to
\* stable.
C2_OneOfferPerNegotiation ==
  \A h \in DOMAIN mgr[Local].pcs : mgr[Local].pcs[h].offersSinceStable <= 1

\* C3: a session that exists is never created again: ensuring a session for
\* a peer that has one changes nothing, every handle that is not closed is
\* the one the session table holds for its peer, and the handle stored for a
\* peer id does not change while the id's entry exists.
C3_EnsureIsNoOp ==
  /\ \A p \in Keys(mgr[Local].peerConnections) :
       _setupPeerConnection(mgr[Local], p) = mgr[Local]
  /\ \A h \in DOMAIN mgr[Local].pcs :
       mgr[Local].pcs[h].signalingState # "closed"
         => mgr[Local].peerConnections[mgr[Local].pcs[h].peer] = h

C3_HandleKept ==
  \A p \in Ids :
    (mgr[Local].peerConnections[p] # 0 /\ mgr'[Local].peerConnections[p] # 0)
      => mgr'[Local].peerConnections[p] = mgr[Local].peerConnections[p]

C3_IdempotentSession == []C3_EnsureIsNoOp /\ [][C3_HandleKept]_vars

\* A NEWPEER of B has been handled while B had a session in the middle of a
\* negotiation, and the table still holds the only handle ever created.
C3_Witness ==
  /\ last.op = "NEWPEER"
  /\ last.p = "B"
  /\ last.pre = 1
  /\ mgr[Local].peerConnections["B"] = 1
  /\ Len(mgr[Local].pcs) = 1
  /\ mgr[Local].pcs[1].signalingState = "have-local-offer"

PeerMapsEmptyFor(st, p) ==
  /\ st.peerConnections[p] = 0
  /\ st.senderDataChannels[p] = 0
  /\ st.receiverDataChannels[p] = 0
  /\ st.videoTrackSenders[p] = 0
  /\ st.audioTrackSenders[p] = 0
  /\ st.mediaElements[p] = NoBundle

\* C4: after a DISPOSE from P, P has no entry in the session table, the data
\* channel maps, the sender maps or the media-element map and every handle
\* ever created for P is closed; a NEWPEER from P that finds no session
\* creates a new handle, different from the closed ones, with a new outbound
\* data channel, no inbound channel, senders of the new handle only and no
\* remote track.
C4_TeardownComplete ==
  LET st == mgr[Local] IN
  /\ last.op = "DISPOSE" =>
       /\ PeerMapsEmptyFor(st, last.p)
       /\ \A h \in DOMAIN st.pcs :
            st.pcs[h].peer = last.p => st.pcs[h].signalingState = "closed"
  /\ (last.op = "NEWPEER" /\ last.pre = 0) =>
       LET h == st.peerConnections[last.p] IN
       /\ h = Len(st.pcs)
       /\ st.pcs[h] = NewPc(last.p)
       /\ \A g \in 1..(h - 1) :
            st.pcs[g].peer = last.p => st.pcs[g].signalingState = "closed"
       /\ st.senderDataChannels[last.p] = Len(st.channels)
       /\ st.channels[Len(st.channels)] = NewChannel(h, last.p, "sender")
       /\ st.receiverDataChannels[last.p] = 0
       /\ \A i \in {st.videoTrackSenders[last.p], st.audioTrackSenders[last.p]} \ {0} :
            st.rtpSenders[i].pc = h
       /\ st.mediaElements[last.p].remoteStream = {}

\* A DISPOSE of B has destroyed the session B got from a NEWPEER after an
\* earlier session of B was destroyed; the session had senders, an inbound
\* data channel and a remote track.
C4_Witness ==
  LET st == mgr[Local] IN
  /\ last.op = "DISPOSE"
  /\ last.p = "B"
  /\ last.pre = 2
  /\ st.pcs[1].peer = "B"
  /\ \E i \in DOMAIN st.rtpSenders : st.rtpSenders[i].pc = 2
  /\ \E c \in DOMAIN st.channels : st.channels[c].pc = 2 /\ st.channels[c].role = "receiver"

\* C5: when A sends and receives media, B only receives and B connects
\* after A, then once the protocol's reactions have run, A has sent an OFFER
\* that B answered: both sessions are stable with the remote description
\* applied.
C5_Scenario ==
  /\ WsIsOpen(mgr["A"]) /\ WsIsOpen(mgr["B"])
  /\ mgr["A"].isLocalPeerVideoAudioSender /\ mgr["A"].isLocalPeerVideoAudioReceiver
  /\ ~mgr["B"].isLocalPeerVideoAudioSender /\ mgr["B"].isLocalPeerVideoAudioReceiver

C5_Quiet == \A n \in Nodes : inbox[n] = <<>> /\ Idle(n)

C5_Negotiated(n, p) ==
  /\ mgr[n].peerConnections[p] # 0
  /\ SessionOf(n, p).signalingState = "stable"
  /\ SessionOf(n, p).remoteDescription

C5_ScenarioNegotiates ==
  (C5_Scenario /\ C5_Quiet) => (C5_Negotiated("A", "B") /\ C5_Negotiated("B", "A"))

\* C6: every "connected" and every "completed" state the engine reports for
\* a session raises "peer connection established" once, and nothing else
\* does: a session that is connected has raised it once, and one that went
\* from connected to completed twice.
C6_CountsReports ==
  \A h \in DOMAIN mgr[Local].pcs :
    LET pc == mgr[Local].pcs[h] IN
    /\ pc.iceConnectionState = "new" => pc.established = 0
    /\ pc.iceConnectionState = "connected" => pc.established = 1
    /\ pc.iceConnectionState = "completed" => pc.established \in {1, 2}

C6_OnePerReport ==
  \A h \in DOMAIN mgr[Local].pcs :
    LET reported == last'.op \in {"ice:connected", "ice:completed"} /\ last'.pre = h
    IN \/ mgr'[Local].pcs[h].signalingState = "closed"
       \/ mgr'[Local].pcs[h].established =
            mgr[Local].pcs[h].established + (IF reported THEN 1 ELSE 0)

C6_EstablishedPerReport == []C6_CountsReports /\ [][C6_OnePerReport]_vars

\* The engine reported "completed" for a session it had reported "connected"
\* for, and the callback has been raised twice.
C6_Witness ==
  \E h \in DOMAIN mgr[Local].pcs :
    /\ last.op = "ice:completed"
    /\ last.pre = h
    /\ mgr[Local].pcs[h].iceConnectionState = "completed"
    /\ mgr[Local].pcs[h].established = 2

\* C6 as stated: "peer connection established" is raised at most once for a
\* session, also when "completed" follows "connected".
C6_ExactlyOnce ==
  \A h \in DOMAIN mgr[Local].pcs : mgr[Local].pcs[h].established <= 1

\* C7: destroying the session of P, by DISPOSE or by a connectivity failure,
\* leaves every other peer Q as it was: table entry, handle state, data
\* channels and senders, and the local tracks Q's senders carry stay live.
C7_OthersUntouched ==
  (last'.op \in {"DISPOSE", "ice:failed"} /\ last'.pre # 0) =>
    \A q \in Keys(mgr[Local].peerConnections) \ {last'.p} :
      LET h == mgr[Local].peerConnections[q] IN
      /\ mgr'[Local].peerConnections[q] = h
      /\ mgr'[Local].pcs[h] = mgr[Local].pcs[h]
      /\ mgr'[Local].senderDataChannels[q] = mgr[Local].senderDataChannels[q]
      /\ mgr'[Local].receiverDataChannels[q] = mgr[Local].receiverDataChannels[q]
      /\ mgr'[Local].videoTrackSenders[q] = mgr[Local].videoTrackSenders[q]
      /\ mgr'[Local].audioTrackSenders[q] = mgr[Local].audioTrackSenders[q]
      /\ \A i \in GetSenders(mgr[Local], h) :
           /\ mgr'[Local].rtpSenders[i] = mgr[Local].rtpSenders[i]
           /\ mgr[Local].rtpSenders[i].track \notin mgr[Local].ended
                => mgr'[Local].rtpSenders[i].track \notin mgr'[Local].ended

C7_TeardownIsolated == [][C7_OthersUntouched]_vars

AllPeerMapsEmpty(st) == \A p \in Ids : PeerMapsEmptyFor(st, p)

\* C8: after the close event and after the error event of the transport the
\* orchestrator is disconnected (not connected, no attempt in progress) and
\* the session table and all per-peer maps are empty.
C8_TeardownOnCloseAndError ==
  last.op \in {"onclose", "onerror"} =>
    /\ ~mgr[Local].isWebSocketConnected
    /\ ~mgr[Local].isWebSocketConnectionInProgress
    /\ AllPeerMapsEmpty(mgr[Local])

\* C9: connect() called while the current socket is open or an attempt is in
\* progress raises no error: it completes normally, creates no socket and
\* changes nothing.
C9_RefusedQuietly ==
  (WsIsOpen(mgr[Local]) \/ mgr[Local].isWebSocketConnectionInProgress) =>
    \A s \in BOOLEAN, r \in BOOLEAN :
      connect(mgr[Local], s, r) = [mgr[Local] EXCEPT !.connectResult = "returned"]

\* connect() has been called while an attempt was in progress or the socket
\* was open, and has returned.
C9_Witness ==
  /\ last.op = "connect"
  /\ mgr[Local].connectResult = "returned"
  /\ WsIsOpen(mgr[Local]) \/ mgr[Local].isWebSocketConnectionInProgress

\* C9 as stated: connect() called while the transport is connected or an
\* attempt is in progress ends with a TransportError.
C9_FailsWithTransportError ==
  (WsIsOpen(mgr[Local]) \/ mgr[Local].isWebSocketConnectionInProgress) =>
    \A s \in BOOLEAN, r \in BOOLEAN :
      connect(mgr[Local], s, r).connectResult = "TransportError"

\* C10: an orchestrator never has two sockets that are connecting or open.
C10_OneTransport ==
  Cardinality({i \in DOMAIN mgr[Local].sockets :
                 mgr[Local].sockets[i].readyState \in {"CONNECTING", "OPEN"}}) <= 1

\* C11: a connect() that is accepted records the two media intents it was
\* given and sends nothing; the intents change by no other step; nothing can
\* be sent while the socket connect() created is not open; and the open
\* event of that socket sends exactly one message, NEWPEER from the local id
\* to ALL, carrying the recorded media-send intent.
C11_AcceptedConnectRecords ==
  LET st == mgr[Local] IN
  (~WsIsOpen(st) /\ ~st.isWebSocketConnectionInProgress) =>
    \A s \in BOOLEAN, r \in BOOLEAN :
      LET c == connect(st, s, r) IN
      /\ c.connectResult = "promise"
      /\ c.isLocalPeerVideoAudioSender = s
      /\ c.isLocalPeerVideoAudioReceiver = r
      /\ c.out = <<>>

C11_OpenAnnounces ==
  LET st == mgr[Local] IN
  /\ ~WsIsOpen(st) =>
       \A type \in SignalingMessageType :
         sendWebSocketMessage(st, type, st.localPeerId, ALL, "text").out = <<>>
  /\ (st.ws # 0 /\ st.sockets[st.ws].readyState = "CONNECTING") =>
       onopen([st EXCEPT !.sockets[st.ws].readyState = "OPEN"], st.ws).out =
         << SignalingMessage("NEWPEER", Local, ALL, "text", Size(st.peerConnections),
                             st.isLocalPeerVideoAudioSender) >>

C11_IntentsKept ==
  \/ /\ mgr'[Local].isLocalPeerVideoAudioSender = mgr[Local].isLocalPeerVideoAudioSender
     /\ mgr'[Local].isLocalPeerVideoAudioReceiver = mgr[Local].isLocalPeerVideoAudioReceiver
  \/ last'.op = "connect" /\ mgr'[Local].connectResult = "promise"

C11_PresenceOnOpen ==
  [](C11_AcceptedConnectRecords /\ C11_OpenAnnounces) /\ [][C11_IntentsKept]_vars

\* The socket of a connect() that declared the local peer a media sender has
\* opened, after an earlier socket of the orchestrator was closed.
C11_Witness ==
  /\ last.op = "onopen"
  /\ mgr[Local].ws = 2
  /\ WsIsOpen(mgr[Local])
  /\ mgr[Local].isWebSocketConnected
  /\ mgr[Local].isLocalPeerVideoAudioSender

TextsOfKind(types) == {x \in KnownTexts : x[1] \in types}

\* C12: handling a NEWPEER whose sender is not the local id leaves a session
\* (an open handle) for the sender in the table and, the transport being
\* open, sends exactly one message: NEWPEERACK from the local id to ALL,
\* carrying the size the session table has after the handling and the local
\* media-send intent.  A NEWPEER whose sender is the local id changes nothing
\* and sends nothing.
C12_AcksNewPeer ==
  LET st == mgr[Local] IN
  CanReceive(Local) =>
    \A x \in TextsOfKind({"NEWPEER"}) :
      LET msg == ParseSignalingMessage(x)
          s == msg.SenderPeerId
          r == handleMessage(st, msg)
          size == Size(st.peerConnections) + (IF st.peerConnections[s] = 0 THEN 1 ELSE 0)
      IN IF s = Local
         THEN r = st
         ELSE /\ r.peerConnections[s] # 0
              /\ r.pcs[r.peerConnections[s]].peer = s
              /\ r.pcs[r.peerConnections[s]].signalingState # "closed"
              /\ Size(r.peerConnections) = size
              /\ r.out = IF WsIsOpen(st)
                         THEN << SignalingMessage("NEWPEERACK", Local, ALL, "text", size,
                                                  st.isLocalPeerVideoAudioSender) >>
                         ELSE <<>>

\* A NEWPEER of C has been handled on the open transport while B had a
\* session: C has a session now, the second of the table.
C12_Witness ==
  /\ last.op = "NEWPEER"
  /\ last.p = "C"
  /\ last.pre = 0
  /\ WsIsOpen(mgr[Local])
  /\ mgr[Local].peerConnections["B"] # 0
  /\ mgr[Local].peerConnections["C"] # 0

\* C13: handling a NEWPEERACK whose sender is not the local id leaves a
\* session for the sender in the table, and starts an offer (one pending
\* _createAndSendOffer, on the sender's handle) exactly when the local peer
\* is a media sender and the sender's session is stable; it starts nothing
\* else and sends nothing itself.  The OFFER a pending offer sends when it
\* settles goes to the peer of its handle and to nobody else.
C13_OffersOnAck ==
  LET st == mgr[Local] IN
  /\ CanReceive(Local) =>
       \A x \in TextsOfKind({"NEWPEERACK"}) :
         LET msg == ParseSignalingMessage(x)
             s == msg.SenderPeerId
             r == handleMessage(st, msg)
             h == r.peerConnections[s]
             offers == /\ st.isLocalPeerVideoAudioSender
                       /\ \/ st.peerConnections[s] = 0
                          \/ st.pcs[st.peerConnections[s]].signalingState = "stable"
         IN IF s = Local
            THEN r = st
            ELSE /\ h # 0
                 /\ r.pcs[h].peer = s
                 /\ r.out = <<>>
                 /\ r.tasks = IF offers
                              THEN st.tasks (+) SetToBag({Task("_createAndSendOffer", h,
                                                  "setLocalDescription", "offer", NoCaller)})
                              ELSE st.tasks
  /\ \A t \in DOMAIN st.tasks : \A accept \in BOOLEAN :
       t.op = "_createAndSendOffer" =>
         \A i \in DOMAIN OfferSetLocal(st, t, accept).out :
           LET m == OfferSetLocal(st, t, accept).out[i]
           IN m.Type = "OFFER" /\ m.ReceiverPeerId = st.pcs[t.pc].peer

\* A NEWPEERACK of B has been handled by a media sender that had no session
\* for B: the offer to B is pending.
C13_Witness ==
  /\ last.op = "NEWPEERACK"
  /\ last.p = "B"
  /\ last.pre = 0
  /\ mgr[Local].isLocalPeerVideoAudioSender
  /\ mgr[Local].peerConnections["B"] # 0
  /\ \E t \in DOMAIN mgr[Local].tasks :
       t.op = "_createAndSendOffer" /\ t.pc = mgr[Local].peerConnections["B"]

\* C14: an OFFER with a well-formed offer, addressed to the local id or to
\* ALL, from a peer that has no session: the handling creates a session (a
\* new handle) for the sender and starts applying the offer; when
\* setRemoteDescription() has settled the session holds the remote offer;
\* when createAnswer() and setLocalDescription() have settled the session is
\* stable again and, the transport being open, exactly one message has been
\* sent in all: ANSWER from the local id to the sender.  An OFFER addressed
\* to another id changes nothing and sends nothing.
C14_AnswersOffer ==
  LET st == mgr[Local] IN
  CanReceive(Local) =>
    \A x \in TextsOfKind({"OFFER"}) : \A accept \in BOOLEAN :
      LET msg == ParseSignalingMessage(x)
          s == msg.SenderPeerId
          r1 == handleMessage(st, msg)
          h == Len(st.pcs) + 1
          t1 == Task("_handleOffer", h, "setRemoteDescription", "offer", NoCaller)
          t2 == Task("_handleOffer", h, "setLocalDescription", "offer", NoCaller)
          r2 == HandleOfferStep(r1, t1, accept)
          r3 == HandleOfferStep(r2, t2, accept)
      IN IF msg.ReceiverPeerId \notin {Local, ALL}
         THEN r1 = st
         ELSE (st.peerConnections[s] = 0 /\ msg.Message = "offer") =>
                /\ r1.peerConnections[s] = h
                /\ r1.pcs[h] = NewPc(s)
                /\ r1.out = <<>>
                /\ r1.tasks = st.tasks (+) SetToBag({t1})
                /\ r2.pcs[h].signalingState = "have-remote-offer"
                /\ r2.pcs[h].remoteDescription
                /\ r2.out = <<>>
                /\ r2.tasks = st.tasks (+) SetToBag({t2})
                /\ r3.pcs[h].signalingState = "stable"
                /\ r3.pcs[h].remoteDescription
                /\ r3.peerConnections[s] = h
                /\ r3.tasks = st.tasks
                /\ r3.out = IF WsIsOpen(st)
                            THEN << SignalingMessage("ANSWER", Local, s, "answer",
                                       Size(st.peerConnections) + 1,
                                       st.isLocalPeerVideoAudioSender) >>
                            ELSE <<>>

\* The answer to the OFFER that created the only session of the table, the
\* session of B, has been set and sent: the session is stable and holds the
\* remote offer.
C14_Witness ==
  /\ last.op = "_handleOffer:setLocalDescription"
  /\ last.p = "B"
  /\ WsIsOpen(mgr[Local])
  /\ Len(mgr[Local].pcs) = 1
  /\ mgr[Local].peerConnections["B"] = 1
  /\ mgr[Local].pcs[1].signalingState = "stable"
  /\ mgr[Local].pcs[1].remoteDescription
  /\ ~mgr[Local].isLocalPeerVideoAudioSender

\* C15: an ANSWER or a CANDIDATE, whatever its payload, from a peer that has
\* no session leaves the orchestrator exactly as it was: no session for the
\* peer, the session table and the state of every other peer unchanged,
\* nothing sent, no exception, and the transport still delivering.
C15_OutOfContextDropped ==
  LET st == mgr[Local] IN
  CanReceive(Local) =>
    \A x \in TextsOfKind({"ANSWER", "CANDIDATE"}) :
      LET msg == ParseSignalingMessage(x)
          r == handleMessage(st, msg)
      IN st.peerConnections[msg.SenderPeerId] = 0 =>
           /\ r = st
           /\ r.peerConnections[msg.SenderPeerId] = 0
           /\ r.out = <<>>
           /\ ~r.uncaught

\* An ANSWER of B has been handled while B had no session and C had one: B
\* has none now and the session of C is the only one.
C15_Witness ==
  /\ last.op = "ANSWER"
  /\ last.p = "B"
  /\ last.pre = 0
  /\ mgr[Local].peerConnections["B"] = 0
  /\ mgr[Local].peerConnections["C"] # 0
  /\ CanReceive(Local)

\* C16: a text whose kind is none of the eight (the empty text, a text
\* without separators, a known kind in another case, an unknown word with
\* all six fields) leaves the orchestrator exactly as it was: session table,
\* negotiation states and channels unchanged, nothing sent, no callback
\* raised.
C16_UnknownKindIgnored ==
  LET st == mgr[Local] IN
  CanReceive(Local) =>
    \A x \in GarbageTexts :
      LET msg == ParseSignalingMessage(x)
          r == handleMessage(st, msg)
      IN /\ msg.Type \notin SignalingMessageType
         /\ r = st
         /\ r.out = <<>>
         /\ r.cb = <<>>

\* The empty text has been handled while B had a session in the middle of a
\* negotiation.
C16_Witness ==
  /\ last.op = ""
  /\ mgr[Local].peerConnections["B"] # 0
  /\ SessionOf(Local, "B").signalingState = "have-local-offer"

\* C17: an OFFER, ANSWER or CANDIDATE whose payload does not parse is
\* dropped: the handling creates no session and destroys none, sends
\* nothing, and handleMessage ends without an exception.
C17_MalformedDropped ==
  LET st == mgr[Local] IN
  CanReceive(Local) =>
    \A x \in TextsOfKind({"OFFER", "ANSWER", "CANDIDATE"}) :
      LET msg == ParseSignalingMessage(x)
          r == handleMessage(st, msg)
      IN msg.Message = "text" =>
           /\ r.peerConnections = st.peerConnections
           /\ r.out = <<>>
           /\ ~r.uncaught

\* C18: closeWebRTC(), in whatever state it is called, leaves the session
\* table and all per-peer maps empty, stops the tracks of the local stream
\* and clears the stream, and, called by an orchestrator that is connected,
\* sends exactly one message: DISPOSE from the local id to ALL.
C18_ClosesAndAnnounces ==
  LET st == mgr[Local]
      r == closeWebRTC(st)
  IN st.ws # 0 =>
       /\ AllPeerMapsEmpty(r)
       /\ r.localStream = "null"
       /\ st.localStream # "null" => StreamTracks(st.localStream) \subseteq r.ended
       /\ st.isWebSocketConnected =>
            r.out = << SignalingMessage("DISPOSE", Local, ALL, "text", 0,
                                        st.isLocalPeerVideoAudioSender) >>

Count(seq, x) == Cardinality({i \in DOMAIN seq : seq[i] = x})

\* C19: sendViaDataChannel(message, null) calls send(message) once on the
\* outbound channel of every peer whose channel is open and on no other
\* channel; a channel that is not open is passed over and the channels after
\* it are still served; the call changes nothing else and does not throw.
C19_BroadcastToOpen ==
  LET st == mgr[Local]
      r == sendViaDataChannel(st, "text", NoTarget)
  IN /\ \A p \in Keys(st.senderDataChannels) :
          LET c == st.senderDataChannels[p]
          IN Count(r.dcSent, <<c, "text">>) =
               (IF st.channels[c].readyState = "open" THEN 1 ELSE 0)
     /\ \A i \in DOMAIN r.dcSent :
          \E p \in Keys(st.senderDataChannels) :
            /\ r.dcSent[i] = <<st.senderDataChannels[p], "text">>
            /\ st.channels[st.senderDataChannels[p]].readyState = "open"
     /\ [r EXCEPT !.dcSent = <<>>] = st
     /\ ~r.uncaught

\* A broadcast has been made while the outbound channel of the first peer
\* was closed (its close event not yet handled) and that of the second peer,
\* later in the map, was open.
C19_Witness ==
  LET st == mgr[Local] IN
  /\ last.op = "sendViaDataChannel"
  /\ last.p = NoTarget
  /\ \E p \in Ids, q \in Ids :
       /\ st.senderDataChannels[p] # 0
       /\ st.senderDataChannels[q] # 0
       /\ st.senderDataChannels[p] < st.senderDataChannels[q]
       /\ st.channels[st.senderDataChannels[p]].readyState = "closed"
       /\ st.channels[st.senderDataChannels[q]].readyState = "open"

\* C20: sendViaDataChannel(message, P) for a peer id P calls send(message)
\* once on the outbound channel of P when P has one and it is open, and
\* otherwise (no channel, or a channel that is connecting or closed) does
\* nothing; it never sends on the channel of another peer, changes nothing
\* else and does not throw.
C20_TargetedSend ==
  LET st == mgr[Local] IN
  \A p \in Ids :
    LET r == sendViaDataChannel(st, "text", p)
        c == st.senderDataChannels[p]
    IN /\ r.dcSent = IF c # 0 /\ st.channels[c].readyState = "open"
                      THEN << <<c, "text">> >>
                      ELSE <<>>
       /\ [r EXCEPT !.dcSent = <<>>] = st
       /\ ~r.uncaught

\* A send to B has been made while the outbound channel of B was still
\* connecting and that of C was open.
C20_Witness ==
  LET st == mgr[Local] IN
  /\ last.op = "sendViaDataChannel"
  /\ last.p = "B"
  /\ st.senderDataChannels["B"] # 0
  /\ st.channels[st.senderDataChannels["B"]].readyState = "connecting"
  /\ st.senderDataChannels["C"] # 0
  /\ st.channels[st.senderDataChannels["C"]].readyState = "open"

InitiateCaller(h) == [kind |-> "initiateOffersToAllPeers", cursor |-> h, stream |-> "null"]

\* The handles of the session table after handle `cursor` whose session is
\* stable, and the pending work the loop has when it goes on from there: an
\* offer to the first of them, if there is one.
StableAfter(st, cursor) ==
  {h \in DOMAIN st.pcs : /\ h > cursor
                         /\ st.peerConnections[st.pcs[h].peer] = h
                         /\ st.pcs[h].signalingState = "stable"}

PendingAfter(st, tasks, cursor) ==
  IF StableAfter(st, cursor) = {} THEN tasks
  ELSE LET h == CHOOSE x \in StableAfter(st, cursor) : \A y \in StableAfter(st, cursor) : x <= y
       IN tasks (+) SetToBag({Task("_createAndSendOffer", h, "setLocalDescription", "offer",
                                   InitiateCaller(h))})

\* initiateOffersToAllPeers() run to its end, every offer it starts settling
\* before anything else happens.
RECURSIVE RunInitiate(_)
RunInitiate(st) ==
  LET ts == {t \in DOMAIN st.tasks : t.caller.kind = "initiateOffersToAllPeers"}
  IN IF ts = {} THEN st
     ELSE RunInitiate(OfferSetLocal(st, CHOOSE t \in ts : TRUE, TRUE))

RECURSIVE RunSetLocalStream(_)
RunSetLocalStream(st) ==
  LET ts == {t \in DOMAIN st.tasks : t.caller.kind = "setLocalStream"}
  IN IF ts = {} THEN st
     ELSE RunSetLocalStream(OfferSetLocal(st, CHOOSE t \in ts : TRUE, TRUE))

\* pc.getSenders() of the session of peer p, those that carry a track
LiveSenders(st, p) ==
  {i \in GetSenders(st, st.peerConnections[p]) : st.rtpSenders[i].track # "null"}

\* C22: when the local stream S1 is replaced by a different stream S2
\* (setLocalStream(S2) awaited to its end), no session keeps a live sender
\* that carries a track of S1, whatever kinds S1 and S2 have; and when both
\* have a video and an audio track, every session has exactly one live
\* video sender and one live audio sender, carrying the tracks of S2 and
\* recorded in the sender maps.
C22_NoStaleSenders ==
  LET st == mgr[Local] IN
  (Idle(Local) /\ st.isLocalPeerVideoAudioSender /\ st.localStream # "null") =>
    \A s2 \in Streams \ {st.localStream} :
      LET r == RunSetLocalStream(setLocalStream(st, s2))
      IN \A p \in Keys(r.peerConnections) :
           /\ \A i \in LiveSenders(r, p) :
                r.rtpSenders[i].track \notin StreamTracks(st.localStream)
           /\ (st.localStream \in {"S1", "S2"} /\ s2 \in {"S1", "S2"}) =>
                /\ {r.rtpSenders[i].track : i \in LiveSenders(r, p)} = StreamTracks(s2)
                /\ Cardinality(LiveSenders(r, p)) = 2
                /\ LiveSenders(r, p) = {r.videoTrackSenders[p], r.audioTrackSenders[p]}

\* C23: setLocalStream(null) stops the tracks of the local stream, clears
\* the stream, and leaves no outbound media sender for any peer that has a
\* session: no sender of the peer's handle carries a track, and the video
\* and audio sender maps hold no entry for the peer.
C23_NullRemovesSenders ==
  LET st == mgr[Local]
      r == setLocalStream(st, "null")
  IN st.ws # 0 =>
       /\ r.localStream = "null"
       /\ st.localStream # "null" => StreamTracks(st.localStream) \subseteq r.ended
       /\ r.tasks = st.tasks
       /\ \A p \in Keys(r.peerConnections) :
            /\ LiveSenders(r, p) = {}
            /\ r.videoTrackSenders[p] = 0
            /\ r.audioTrackSenders[p] = 0

\* The tracks of a kind in the composite remote stream of peer p
RemoteTracks(st, p, kind) == {t \in st.mediaElements[p].remoteStream : t.kind = kind}

\* C24: the composite remote stream of a peer never holds more than one
\* video track or more than one audio track.  A track event for a peer whose
\* media bundle exists leaves the stream with the received track as its only
\* track of that kind and with the track of the other kind it had; and the
\* track of a kind in a peer's stream changes by no step other than a track
\* event of that peer (which puts the received track there) or the teardown
\* of the peer (which empties the stream), so that it is always the most
\* recently received one.
C24_OnePerKind ==
  LET st == mgr[Local] IN
  /\ \A p \in Ids : \A kind \in {"video", "audio"} :
       Cardinality(RemoteTracks(st, p, kind)) <= 1
  /\ \A h \in DOMAIN st.pcs : \A kind \in {"video", "audio"} : \A id \in TrackIds :
       LET p == st.pcs[h].peer
           r == ontrack(st, p, h, kind, id)
           other == IF kind = "video" THEN "audio" ELSE "video"
       IN (st.pcs[h].remoteDescription /\ st.mediaElements[p].present) =>
            /\ RemoteTracks(r, p, kind) = {[kind |-> kind, pc |-> h, id |-> id]}
            /\ RemoteTracks(r, p, other) = RemoteTracks(st, p, other)
            /\ \A q \in Ids \ {p} : r.mediaElements[q] = st.mediaElements[q]

C24_ChangedByTrackOnly ==
  \A p \in Ids : \A kind \in {"video", "audio"} :
    \/ RemoteTracks(mgr'[Local], p, kind) = RemoteTracks(mgr[Local], p, kind)
    \/ last'.op = "ontrack" /\ last'.p = p
    \/ mgr'[Local].mediaElements[p].remoteStream = {}

C24_NoDuplicateTracks == []C24_OnePerKind /\ [][C24_ChangedByTrackOnly]_vars

\* A second video track has arrived for B, whose stream held the first video
\* track and an audio track: the stream holds the second video track and
\* the audio track.
C24_Witness ==
  LET st == mgr[Local] IN
  /\ last.op = "ontrack"
  /\ last.p = "B"
  /\ st.peerConnections["B"] # 0
  /\ RemoteTracks(st, "B", "video") = {[kind |-> "video", pc |-> st.peerConnections["B"], id |-> 2]}
  /\ Cardinality(RemoteTracks(st, "B", "audio")) = 1

\* C25: a remote track that arrives for a peer that has a session is added
\* to the peer's composite remote stream and the callback of its kind
\* ("video stream established", "audio stream established") is raised for
\* the peer, whether or not a media bundle was prepared for the peer.
C25_TrackEstablishes ==
  LET st == mgr[Local] IN
  \A p \in Keys(st.peerConnections) : \A kind \in {"video", "audio"} : \A id \in TrackIds :
    LET h == st.peerConnections[p]
        r == ontrack(st, p, h, kind, id)
    IN st.pcs[h].remoteDescription =>
         /\ [kind |-> kind, pc |-> h, id |-> id] \in r.mediaElements[p].remoteStream
         /\ r.cb = << <<IF kind = "video" THEN "onVideoStreamEstablished"
                                          ELSE "onAudioStreamEstablished", p>> >>

\* C26: decoding the encoded text of a message gives back the message, in
\* all six fields: for every message whose text is on the wire,
\* new SignalingMessage(msg.toString()) equals msg.
C26_RoundTrip ==
  \A msg \in CodecMessages :
    toString(msg) \in Range(inbox[Local]) => ParseSignalingMessage(toString(msg)) = msg

TrueSpellings == {"true", "True", "TRUE", "tRuE"}

\* C27: every text on the wire decodes to a message of six fields whose
\* kind is the first field; the peer count is 0 when the fifth field is
\* absent or empty, the media-sender flag is false when the sixth field is
\* absent, and the flag is true exactly when the sixth field is "true" in
\* some spelling of upper and lower case.
C27_DecodeDefaults ==
  \A i \in DOMAIN inbox[Local] :
    LET x == inbox[Local][i]
        m == ParseSignalingMessage(x)
    IN /\ DOMAIN m = {"Type", "SenderPeerId", "ReceiverPeerId", "Message",
                      "ConnectionCount", "IsVideoAudioSender"}
       /\ m.Type = x[1]
       /\ (Len(x) < 5 \/ x[5] = "") => m.ConnectionCount = 0
       /\ Len(x) < 6 => m.IsVideoAudioSender = FALSE
       /\ m.IsVideoAudioSender = (Len(x) >= 6 /\ x[6] \in TrueSpellings)

\* The text "DATA", of one field, has been decoded and dispatched, and a
\* text whose flag is spelled "tRuE" is on the wire behind it.
C27_Witness ==
  /\ last.op = "DATA"
  /\ last.p = Undefined
  /\ \E i \in DOMAIN inbox[Local] :
       Len(inbox[Local][i]) = 6 /\ inbox[Local][i][6] = "tRuE"

\* C28: a DATA text addressed to the local id raises "data channel ready"
\* for its sender, once, exactly when the outbound channel the local peer
\* holds for that sender exists and is open; a DATA text addressed to ALL or
\* to another id raises nothing; in every case nothing is sent and the
\* state (sessions, channels, negotiation states, pending work) is what it
\* was.
C28_DataAcknowledges ==
  LET st == mgr[Local] IN
  CanReceive(Local) =>
    \A x \in {y \in AckTexts : y[1] = "DATA"} :
      LET msg == ParseSignalingMessage(x)
          s == msg.SenderPeerId
          c == st.senderDataChannels[s]
          r == handleMessage(st, msg)
      IN /\ r.cb = IF /\ msg.ReceiverPeerId = Local
                      /\ c # 0
                      /\ st.channels[c].readyState = "open"
                   THEN << <<"onDataChannelConnection", s>> >>
                   ELSE <<>>
         /\ r.out = <<>>
         /\ [r EXCEPT !.cb = <<>>] = st

\* A DATA text of B, addressed to A, has been handled while the outbound
\* channel to B was open and the one to C was still connecting.
C28_Witness ==
  LET st == mgr[Local] IN
  /\ last.op = "DATA"
  /\ last.p = "B"
  /\ st.senderDataChannels["B"] # 0
  /\ st.channels[st.senderDataChannels["B"]].readyState = "open"
  /\ st.senderDataChannels["C"] # 0
  /\ st.channels[st.senderDataChannels["C"]].readyState = "connecting"

\* C29: a COMPLETE text addressed to the local id raises "peer connection
\* established" for its sender, once, sends nothing and changes no state,
\* whether the sender has a session or not; a COMPLETE addressed to ALL or to
\* another id raises nothing; and handling the same COMPLETE again gives the
\* same result from the same state, so that any number of them leaves the
\* state one of them leaves.
C29_CompleteIsIdempotent ==
  LET st == mgr[Local] IN
  CanReceive(Local) =>
    \A x \in {y \in AckTexts : y[1] = "COMPLETE"} :
      LET msg == ParseSignalingMessage(x)
          r == handleMessage(st, msg)
          again == handleMessage(Commit(r), msg)
      IN /\ r.cb = IF msg.ReceiverPeerId = Local
                   THEN << <<"onWebRTCConnection", msg.SenderPeerId>> >>
                   ELSE <<>>
         /\ r.out = <<>>
         /\ [r EXCEPT !.cb = <<>>] = st
         /\ Commit(r) = Commit(st)
         /\ again = r

\* A COMPLETE text of B, addressed to A, has been handled while the session
\* of B was connected (and had raised the callback itself), and C had no
\* session.
C29_Witness ==
  LET st == mgr[Local] IN
  /\ last.op = "COMPLETE"
  /\ last.p = "B"
  /\ last.pre # 0
  /\ st.peerConnections["B"] = last.pre
  /\ st.pcs[last.pre].iceConnectionState = "connected"
  /\ st.peerConnections["C"] = 0

\* C30: when the engine signals that negotiation is needed for a peer whose
\* session is stable, an offer to that peer is started (a pending
\* _createAndSendOffer on the peer's handle); when the session is in any
\* other negotiation state nothing is started and nothing changes.
C30_OffersWhenStable ==
  LET st == mgr[Local] IN
  \A p \in Keys(st.peerConnections) :
    LET h == st.peerConnections[p]
        r == onnegotiationneeded(st, p, h)
    IN IF st.pcs[h].signalingState = "stable"
       THEN r.tasks = st.tasks (+) SetToBag({Task("_createAndSendOffer", h,
                                                  "setLocalDescription", "offer", NoCaller)})
       ELSE r = st

HasLocalOffer(n, p) ==
  /\ mgr[n].peerConnections[p] # 0
  /\ SessionOf(n, p).signalingState = "have-local-offer"

\* C31: the session of A with B and the session of B with A never have an
\* offer of their own outstanding at the same time, also when the NEWPEER of
\* a third peer makes A and B broadcast a NEWPEERACK each that the other
\* receives.
C31_NoGlare == ~(HasLocalOffer("A", "B") /\ HasLocalOffer("B", "A"))

\* C32: an OFFER of B, for the session B has, is accepted whatever the
\* negotiation state of the session: its handling starts the chain of
\* _handleOffer and changes nothing else; when setRemoteDescription() of the
\* chain settles the offer is applied (the session holds the remote offer and
\* the chain goes on to the answer); when createAnswer() and
\* setLocalDescription() settle, the session is stable and the one message
\* sent is the ANSWER to B.
C32_OfferAccepted ==
  LET st == mgr[Local] IN
  WsIsOpen(st) =>
    /\ st.peerConnections["B"] # 0 =>
         LET h == st.peerConnections["B"]
             r == handleMessage(st, SignalingMessage("OFFER", "B", Local, "offer", 0, FALSE))
         IN /\ r.tasks = st.tasks (+) SetToBag({Task("_handleOffer", h, "setRemoteDescription",
                                                     "offer", NoCaller)})
            /\ [r EXCEPT !.tasks = st.tasks] = st
    /\ \A t \in DOMAIN st.tasks : \A accept \in BOOLEAN :
         t.op = "_handleOffer" =>
           LET r == HandleOfferStep(st, t, accept)
           IN IF t.stage = "setRemoteDescription"
              THEN /\ r.pcs[t.pc].signalingState = "have-remote-offer"
                   /\ r.pcs[t.pc].remoteDescription
                   /\ [t EXCEPT !.stage = "setLocalDescription"] \in DOMAIN r.tasks
                   /\ r.out = <<>>
              ELSE /\ r.pcs[t.pc].signalingState = "stable"
                   /\ r.out = << SignalingMessage("ANSWER", Local, st.pcs[t.pc].peer, "answer",
                                                  Size(st.peerConnections),
                                                  st.isLocalPeerVideoAudioSender) >>

\* The per-peer maps of a node state
PeerMaps(st) ==
  <<st.peerConnections, st.senderDataChannels, st.receiverDataChannels,
    st.videoTrackSenders, st.audioTrackSenders, st.mediaElements>>

\* C33: for the handle the table holds for P, a connectivity state "failed",
\* "disconnected" or "closed" destroys the session at once (the handle is
\* closed, P has no entry in the table or in any per-peer map, no callback
\* is raised); a state "connected" or "completed" raises "peer connection
\* established" for P once and leaves every map and the handle as they
\* were.
C33_SignalsHandled ==
  LET st == mgr[Local] IN
  \A p \in Keys(st.peerConnections) :
    \A state \in {"connected", "completed", "failed", "disconnected", "closed"} :
      LET h == st.peerConnections[p]
          pre == [st EXCEPT !.pcs[h].iceConnectionState = state]
          r == oniceconnectionstatechange(pre, p, h)
      IN IF state \in {"connected", "completed"}
         THEN /\ r.cb = << <<"onWebRTCConnection", p>> >>
              /\ PeerMaps(r) = PeerMaps(st)
              /\ r.pcs[h].signalingState = st.pcs[h].signalingState
              /\ r.channels = st.channels
              /\ r.out = <<>>
         ELSE /\ PeerMapsEmptyFor(r, p)
              /\ r.pcs[h].signalingState = "closed"
              /\ \A c \in DOMAIN r.channels :
                   r.channels[c].pc = h => r.channels[c].readyState = "closed"
              /\ \A q \in Ids \ {p} : r.peerConnections[q] = st.peerConnections[q]
              /\ r.cb = <<>>

\* A step that takes an entry out of the session table is a DISPOSE, a
\* failure signal, the close of the transport or closeWebRTC().
C33_RemovedByTeardownOnly ==
  (\E p \in Ids : mgr[Local].peerConnections[p] # 0 /\ mgr'[Local].peerConnections[p] = 0)
    => last'.op \in {"DISPOSE", "ice:failed", "ice:disconnected", "onclose", "closeWebRTC"}

C33_FailureDestroys == []C33_SignalsHandled /\ [][C33_RemovedByTeardownOnly]_vars

\* The engine reported "disconnected" for the session of B, which was
\* connected and had an inbound data channel: B has no entry left.
C33_Witness ==
  LET st == mgr[Local] IN
  /\ last.op = "ice:disconnected"
  /\ last.p = "B"
  /\ last.pre # 0
  /\ PeerMapsEmptyFor(st, "B")
  /\ st.pcs[last.pre].signalingState = "closed"
  /\ \E c \in DOMAIN st.channels :
       st.channels[c].pc = last.pre /\ st.channels[c].role = "receiver"

\* The chain of _handleOffer for a well-formed OFFER of peer p, from the
\* arrival of the text to the end of the chain, the engine taking the offer
OfferHandled(st, p) ==
  LET h == st.peerConnections[p]
      r1 == handleMessage(st, SignalingMessage("OFFER", p, Local, "offer", 0, FALSE))
      r2 == HandleOfferStep(r1, Task("_handleOffer", h, "setRemoteDescription", "offer",
                                     NoCaller), TRUE)
  IN HandleOfferStep(r2, Task("_handleOffer", h, "setLocalDescription", "offer", NoCaller),
                     TRUE)

\* The same for a well-formed ANSWER of peer p
AnswerHandled(st, p) ==
  LET h == st.peerConnections[p]
      r1 == handleMessage(st, SignalingMessage("ANSWER", p, Local, "answer", 0, FALSE))
  IN HandleAnswerStep(r1, Task("_handleAnswer", h, "setRemoteDescription", "answer",
                               NoCaller), TRUE)

\* A valid OFFER, and for a session with its offer out a valid ANSWER, is
\* handled in state st: the OFFER is answered with one ANSWER, and each
\* leaves the session of p stable with the remote description set.
StillNegotiates(st, p) ==
  LET h == st.peerConnections[p] IN
  /\ h # 0
  /\ LET r == OfferHandled(st, p)
     IN /\ r.pcs[h].signalingState = "stable"
        /\ r.pcs[h].remoteDescription
        /\ Len(r.out) = 1
        /\ r.out[1].Type = "ANSWER"
        /\ r.out[1].ReceiverPeerId = p
  /\ st.pcs[h].signalingState = "have-local-offer" =>
       LET r == AnswerHandled(st, p)
       IN /\ r.pcs[h].signalingState = "stable"
          /\ r.pcs[h].remoteDescription
          /\ r.out = <<>>

\* C34: an ANSWER the engine rejects (the session is not in have-local-offer
\* when setRemoteDescription() runs) ends its chain and changes nothing
\* else; a CANDIDATE for a session that has no remote description yet
\* changes nothing at all; neither sends anything, and in the state they
\* leave, with the transport open, a valid OFFER or ANSWER of the peer is
\* handled as ever.
C34_RejectedIsLogged ==
  LET st == mgr[Local] IN
  /\ \A t \in DOMAIN st.tasks : \A accept \in BOOLEAN :
       ( /\ t.op = "_handleAnswer"
         /\ t.desc = "answer"
         /\ st.pcs[t.pc].signalingState # "have-local-offer" ) =>
         LET r == HandleAnswerStep(st, t, accept)
         IN /\ r = RemoveTask(st, t)
            /\ r.peerConnections[st.pcs[t.pc].peer] = t.pc
            /\ (WsIsOpen(st) /\ r.tasks = EmptyBag) => StillNegotiates(r, st.pcs[t.pc].peer)
  /\ CanReceive(Local) =>
       \A p \in Keys(st.peerConnections) :
         ~st.pcs[st.peerConnections[p]].remoteDescription =>
           LET r == handleMessage(st, SignalingMessage("CANDIDATE", p, Local, "candidate",
                                                       0, FALSE))
           IN /\ r = st
              /\ (WsIsOpen(st) /\ st.tasks = EmptyBag) => StillNegotiates(r, p)

\* The chain of an ANSWER of B has ended on a session that never had an
\* offer out: the engine rejected the answer, and the session is in the
\* table, stable, without a remote description.
C34_Witness ==
  LET st == mgr[Local] IN
  /\ last.op = "_handleAnswer:setRemoteDescription"
  /\ last.p = "B"
  /\ last.pre # 0
  /\ st.peerConnections["B"] = last.pre
  /\ st.pcs[last.pre].signalingState = "stable"
  /\ ~st.pcs[last.pre].remoteDescription
  /\ WsIsOpen(st)

\* The OFFERs sent, on an open transport, to the peers of the handles hs
OffersTo(st, hs) ==
  [i \in DOMAIN hs |->
     SignalingMessage("OFFER", Local, st.pcs[hs[i]].peer, "offer",
                      Size(st.peerConnections), st.isLocalPeerVideoAudioSender)]

\* C35: setLocalStream(stream) with a stream, awaited to its end on an open
\* transport, stores the stream.  When the local peer sends media, every
\* session of the table then has a live sender for each track of the
\* stream, recorded in the sender map of the track's kind, and one OFFER
\* has been sent to each peer whose session was stable, in table order, and
\* none to any other peer.  When the local peer does not send media,
\* nothing but the stored stream has changed: no sender, no pending offer,
\* no message.
C35_AttachesAndOffers ==
  LET st == mgr[Local] IN
  (Idle(Local) /\ WsIsOpen(st)) =>
    \A stream \in Streams :
      LET r == RunSetLocalStream(setLocalStream(st, stream))
      IN IF st.isLocalPeerVideoAudioSender
         THEN /\ r.localStream = stream
              /\ r.peerConnections = st.peerConnections
              /\ \A p \in Keys(st.peerConnections) : \A t \in StreamTracks(stream) :
                   LET i == IF TrackKind(t) = "video" THEN r.videoTrackSenders[p]
                                                     ELSE r.audioTrackSenders[p]
                   IN /\ i \in LiveSenders(r, p)
                      /\ r.rtpSenders[i].track = t
              /\ r.out = OffersTo(st, SetToSeq(StableAfter(st, 0)))
              /\ r.tasks = EmptyBag
         ELSE r = [st EXCEPT !.localStream = stream]

\* The loop of setLocalStream(S1) has ended with the offer to C, the second
\* peer of the table: both sessions have their offer out and senders that
\* carry the tracks of S1.
C35_Witness ==
  LET st == mgr[Local] IN
  /\ last.op = "setLocalDescription(offer)"
  /\ last.p = "C"
  /\ Idle(Local)
  /\ WsIsOpen(st)
  /\ st.localStream = "S1"
  /\ Keys(st.peerConnections) = {"B", "C"}
  /\ \A p \in {"B", "C"} :
       /\ SessionOf(Local, p).signalingState = "have-local-offer"
       /\ {st.rtpSenders[i].track : i \in LiveSenders(st, p)} = {"v1", "a1"}

\* C36: the close event of a data channel of an old, closed handle of peer
\* P (no channel of the handle the table holds for P has a close event
\* due) leaves the session P has now as it was: its table entry and its
\* entries in the outbound and the inbound data-channel map.
C36_LateClose ==
  LET st == mgr[Local]
      p == last'.p
  IN ( /\ last'.op = "onchannelclose"
       /\ st.peerConnections[p] # 0
       /\ \A c \in DOMAIN st.channels :
            st.channels[c].closePending => st.channels[c].pc # st.peerConnections[p] )
     => /\ mgr'[Local].peerConnections[p] = st.peerConnections[p]
        /\ mgr'[Local].senderDataChannels[p] = st.senderDataChannels[p]
        /\ mgr'[Local].receiverDataChannels[p] = st.receiverDataChannels[p]

C36_LateEventsHarmless == [][C36_LateClose]_vars

\* The ways the session of peer p, on handle h, is destroyed: a DISPOSE of
\* p, a connectivity failure of h, the close of the transport.
Destructions == {"DISPOSE", "failed", "onclose"}

Destroyed(st, p, h, how) ==
  IF how = "DISPOSE"
  THEN handleMessage(st, SignalingMessage("DISPOSE", p, ALL, "text", 0, FALSE))
  ELSE IF how = "failed"
  THEN oniceconnectionstatechange([st EXCEPT !.pcs[h].iceConnectionState = "failed"], p, h)
  ELSE onclose([st EXCEPT !.sockets[st.ws].readyState = "CLOSED"], st.ws)

\* The pending step t goes on
StepOf(st, t, accept) ==
  IF t.op = "_createAndSendOffer" THEN OfferSetLocal(st, t, accept)
  ELSE IF t.op = "_handleOffer" THEN HandleOfferStep(st, t, accept)
  ELSE HandleAnswerStep(st, t, accept)

\* C37: when the session of P is destroyed while steps of its negotiation
\* are pending, P has no entry in the table or in a per-peer map
\* afterwards and no step of the closed handle stays pending; and were
\* such a step to go on all the same (the engine settling it on the closed
\* handle), P would still have no entry anywhere, the handle would stay
\* closed and no OFFER or ANSWER would go to P.
C37_Destroyed ==
  LET st == mgr[Local] IN
  st.ws # 0 =>
    \A p \in Keys(st.peerConnections) : \A how \in Destructions :
      LET h == st.peerConnections[p]
          d == Commit(Destroyed(st, p, h, how))
      IN /\ PeerMapsEmptyFor(d, p)
         /\ \A t \in DOMAIN d.tasks : t.pc # h
         /\ \A t \in DOMAIN st.tasks : \A accept \in BOOLEAN :
              t.pc = h =>
                LET r == StepOf(AddTask(d, t), t, accept)
                IN /\ PeerMapsEmptyFor(r, p)
                   /\ r.pcs[h].signalingState = "closed"
                   /\ \A i \in DOMAIN r.out :
                        ~(r.out[i].Type \in {"OFFER", "ANSWER"} /\ r.out[i].ReceiverPeerId = p)

\* A settled step of a negotiation adds no session: the table and the
\* data-channel maps are what they were, and the sender maps hold entries
\* for peers of the table only.
C37_StepsAddNoSession ==
  last'.op \in {"setLocalDescription(offer)", "_handleOffer:setRemoteDescription",
               "_handleOffer:setLocalDescription", "_handleAnswer:setRemoteDescription"}
    => /\ mgr'[Local].peerConnections = mgr[Local].peerConnections
       /\ mgr'[Local].senderDataChannels = mgr[Local].senderDataChannels
       /\ mgr'[Local].receiverDataChannels = mgr[Local].receiverDataChannels
       /\ Keys(mgr'[Local].videoTrackSenders) \subseteq Keys(mgr'[Local].peerConnections)
       /\ Keys(mgr'[Local].audioTrackSenders) \subseteq Keys(mgr'[Local].peerConnections)

C37_NoResurrection == []C37_Destroyed /\ [][C37_StepsAddNoSession]_vars

\* The session of B has two steps pending, its own offer and the answer to
\* an offer of B, on a transport that delivers: the state in which the
\* DISPOSE of B, a failure of the handle or the close of the transport
\* destroys it.
C37_Witness ==
  LET st == mgr[Local]
      h == st.peerConnections["B"]
  IN /\ h # 0
     /\ WsIsOpen(st)
     /\ st.pcs[h].signalingState = "have-remote-offer"
     /\ \E t \in DOMAIN st.tasks : t.pc = h /\ t.op = "_createAndSendOffer"
     /\ \E t \in DOMAIN st.tasks :
          t.pc = h /\ t.op = "_handleOffer" /\ t.stage = "setLocalDescription"

\* C38: every peer id that has an entry in the outbound data-channel map,
\* the inbound data-channel map, the video sender map or the audio sender
\* map has an entry in the session table.
C38_BookkeepingWithinTable ==
  LET st == mgr[Local] IN
  /\ Keys(st.senderDataChannels) \subseteq Keys(st.peerConnections)
  /\ Keys(st.receiverDataChannels) \subseteq Keys(st.peerConnections)
  /\ Keys(st.videoTrackSenders) \subseteq Keys(st.peerConnections)
  /\ Keys(st.audioTrackSenders) \subseteq Keys(st.peerConnections)

\* B has an entry in each of the four maps and in the table, for the
\* session it got after an earlier session of B, which had senders and an
\* outbound channel of its own, was destroyed.
C38_Witness ==
  LET st == mgr[Local] IN
  /\ st.peerConnections["B"] = 2
  /\ st.pcs[1].peer = "B"
  /\ st.pcs[1].signalingState = "closed"
  /\ GetSenders(st, 1) # {}
  /\ \E c \in DOMAIN st.channels : st.channels[c].pc = 1 /\ st.channels[c].role = "sender"
  /\ st.senderDataChannels["B"] # 0
  /\ st.receiverDataChannels["B"] # 0
  /\ st.videoTrackSenders["B"] # 0
  /\ st.audioTrackSenders["B"] # 0

\* C39: the session table never holds an entry keyed by the local peer id,
\* whatever echoes of the orchestrator's own messages it receives.
C39_NoSelfSession ==
  /\ mgr[Local].peerConnections[Local] = 0
  /\ \A h \in DOMAIN mgr[Local].pcs : mgr[Local].pcs[h].peer # Local

\* A has handled the echo of one of its own messages addressed to B while
\* it has a session with B.
C39_Witness ==
  /\ last.n = Local
  /\ last.p = Local
  /\ last.op \in {"OFFER", "ANSWER", "CANDIDATE", "DATA"}
  /\ mgr[Local].peerConnections["B"] # 0

\* C40: when B's inbound channel from A opens, B sends one DATA message
\* addressed to A; and once A's outbound channel to B and B's inbound
\* channel from A are both open, "data channel ready" for B is eventually
\* raised on A, whichever of B's DATA and the open event of A's channel
\* comes first at A.
C40_SendsData ==
  LET st == mgr["B"] IN
  \A c \in DOMAIN st.channels :
    (/\ st.channels[c].role = "receiver"
     /\ st.channels[c].peer = "A"
     /\ st.channels[c].readyState = "connecting"
     /\ WsIsOpen(st)) =>
      LET r == onchannelopen([st EXCEPT !.channels[c].readyState = "open"], c)
      IN /\ Len(r.out) = 1
         /\ r.out[1].Type = "DATA"
         /\ r.out[1].SenderPeerId = "B"
         /\ r.out[1].ReceiverPeerId = "A"

OutboundOpen(st, p) ==
  /\ st.senderDataChannels[p] # 0
  /\ st.channels[st.senderDataChannels[p]].readyState = "open"

InboundOpen(st, p) ==
  /\ st.receiverDataChannels[p] # 0
  /\ st.channels[st.receiverDataChannels[p]].readyState = "open"

\* The second of the two ends has just opened.
C40_BothOpen ==
  /\ last.op = "onchannelopen"
  /\ OutboundOpen(mgr["A"], "B")
  /\ InboundOpen(mgr["B"], "A")

\* A has just handled the DATA message of B with its outbound channel to B
\* open: the DATA case has raised "data channel ready" for B.
C40_ReadyRaised ==
  /\ last.op = "DATA"
  /\ last.n = "A"
  /\ last.p = "B"
  /\ OutboundOpen(mgr["A"], "B")

=============================================================================
